---- MODULE Spec2Model ----
(***************************************************************************)
(* Connection manager (conmgr con.c, as carried by gres_select_util.c):    *)
(* connection objects, the registry lists, close_con, polling-kind         *)
(* mapping, fd passing, listeners.  The watch loop, the worker pool and    *)
(* the poll controller live outside the source tree and are modelled from  *)
(* the design text (sections 4.1, 4.3, 4.4).                               *)
(***************************************************************************)
EXTENDS Integers, Sequences, FiniteSets, TLC

\* ---------------------------------------------------------------- bounds
MaxFd == 4
MaxCons == 1
MaxRecv == 1
MaxListen == 2
MaxWork == 1
MaxOut == 1
MaxIn == 1
NWorkers == 2
MaxGres == 2
MaxSignalWork == 2
MaxPipe == 2
MaxStart == 2

\* ------------------------------------------------------------- constants
NULL == "NULL"
SLURM_SUCCESS == 0
SLURM_ERROR == -1
EINVAL == 22
EPERM == 1
EBADF == 9
EAFNOSUPPORT == 97
EINTR == 4
EAGAIN == 11
EMFILE == 24
ECONNREFUSED == 111
EINPROGRESS == 115
SLURM_COMMUNICATIONS_MISSING_SOCKET_ERROR == 1020

\* the width of uint16_t, and the value that stands for "not set"
W16 == 65536
NO_VAL16 == 65534

\* sizeof(signo), the bytes of an int
sizeof_signo == 4

FDs == 0 .. (MaxFd - 1)
ConIds == 1 .. MaxCons
Workers == 1 .. NWorkers

PCTL_TYPE_NONE == "NONE"
PCTL_TYPE_UNSUPPORTED == "UNSUPPORTED"
PCTL_TYPE_CONNECTED == "CONNECTED"
PCTL_TYPE_READ_ONLY == "READ_ONLY"
PCTL_TYPE_READ_WRITE == "READ_WRITE"
PCTL_TYPE_WRITE_ONLY == "WRITE_ONLY"
PCTL_TYPE_LISTEN == "LISTEN"

CON_TYPE_RAW == "RAW"
CON_TYPE_RPC == "RPC"

CONMGR_WORK_STATUS_RUN == "RUN"
CONMGR_WORK_STATUS_CANCELLED == "CANCELLED"

VARIABLES
    cons,               \* every conmgr_fd_t ever allocated, by id
    connections,        \* mgr.connections (active list), ids in order
    listen_conns,       \* mgr.listen_conns, ids in order
    complete_conns,     \* mgr.complete_conns, ids in order
    fdtab,              \* the process's file descriptor table
    pctl,               \* poll controller: fd -> registered interest
    workers,            \* worker -> the connection and work item it holds
    watch,              \* the watch thread: "run", or "poll" when blocked in poll()
    shutdown_requested, \* mgr.shutdown_requested
    fatal,              \* the process died in fatal()/fatal_abort()
    calls,              \* system and poll-controller calls of the last step
    last,               \* the operation the last step ran, with its result
    sig,                \* the signal bridge: the statics of signal.c
    job                 \* the last gres_select_util call: arguments and results

vars == <<cons, connections, listen_conns, complete_conns, fdtab, pctl, workers,
          watch, shutdown_requested, fatal, calls, last, sig, job>>

\* ------------------------------------------------------ file descriptors
NoAddr == [family |-> "AF_UNSPEC", addr |-> 0, port |-> 0, scope |-> 0, path |-> ""]

ClosedFd == [open |-> FALSE, kind |-> "none", shut_rd |-> FALSE,
             nonblock |-> FALSE, keepalive |-> FALSE, bound |-> NoAddr]

OpenFd(kind) == [open |-> TRUE, kind |-> kind, shut_rd |-> FALSE,
                 nonblock |-> FALSE, keepalive |-> FALSE, bound |-> NoAddr]

FdKinds == {"sock", "pipe", "file"}

\* the kernel hands out the lowest free descriptor number
LowestFree(tab) ==
    IF \E f \in FDs : ~tab[f].open
    THEN CHOOSE f \in FDs : ~tab[f].open /\ \A g \in FDs : g < f => tab[g].open
    ELSE -1

\* ------------------------------------------------ one step's working copy
\* The operations below are functions from a world to a world; an action
\* runs them on World and commits the result.  rc holds the value the last
\* int-returning function returned, ret the kind _set_fd_polling returned.
World ==
    [cons |-> cons, connections |-> connections, listen_conns |-> listen_conns,
     complete_conns |-> complete_conns, fdtab |-> fdtab, pctl |-> pctl, fatal |-> FALSE, calls |-> <<>>,
     rc |-> SLURM_SUCCESS, ret |-> PCTL_TYPE_NONE]

Call(w, op, fd, kind, con) ==
    [w EXCEPT !.calls = Append(@, [op |-> op, fd |-> fd, kind |-> kind, con |-> con])]

mutex_lock(w) == Call(w, "mutex_lock", -1, "", 0)

mutex_unlock(w) == Call(w, "mutex_unlock", -1, "", 0)

EVENT_SIGNAL(w) == Call(w, "EVENT_SIGNAL", -1, "", 0)

sys_close(w, fd, con) ==
    [Call(w, "close", fd, "", con) EXCEPT !.fdtab[fd] = ClosedFd]

sys_shutdown_rd(w, fd, con) ==
    [Call(w, "shutdown", fd, "", con) EXCEPT !.fdtab[fd].shut_rd = TRUE]

sys_unlink(w, path, con) == Call(w, "unlink", -1, path, con)

\* -------------------------------------------------------- poll controller
\* poll.c is not part of the tree: link/relink/unlink follow section 4.1.
\* A regular file cannot be polled: linking it is refused with EPERM.
pollctl_link_fd(w, fd, type, con) ==
    IF ~w.fdtab[fd].open
    THEN [Call(w, "link", fd, type, con) EXCEPT !.rc = EBADF]
    ELSE IF w.fdtab[fd].kind = "file"
    THEN [Call(w, "link", fd, type, con) EXCEPT !.rc = EPERM]
    ELSE [Call(w, "link", fd, type, con) EXCEPT !.rc = SLURM_SUCCESS,
                                                !.pctl[fd] = type]

pollctl_relink_fd(w, fd, type, con) ==
    [Call(w, "relink", fd, type, con) EXCEPT !.pctl[fd] = type]

pollctl_unlink_fd(w, fd, con) ==
    [Call(w, "unlink_fd", fd, "", con) EXCEPT !.pctl[fd] = PCTL_TYPE_NONE]

pollctl_interrupt(w) == Call(w, "interrupt", -1, "", 0)

\* ------------------------------------------------------- _set_fd_polling
\* _set_fd_polling without the early return for old = new
_set_fd_polling_always_sets(w, fd, old, new, con) ==
    LET linked(x) ==
            IF x.rc = SLURM_SUCCESS THEN [x EXCEPT !.ret = new]
            ELSE IF x.rc = EPERM THEN [x EXCEPT !.ret = PCTL_TYPE_UNSUPPORTED]
            ELSE [x EXCEPT !.fatal = TRUE, !.ret = old]
    IN  IF old = PCTL_TYPE_UNSUPPORTED THEN [w EXCEPT !.ret = PCTL_TYPE_UNSUPPORTED]
        ELSE IF new = PCTL_TYPE_NONE
        THEN [pollctl_unlink_fd(w, fd, con) EXCEPT !.ret = new]
        ELSE IF old # PCTL_TYPE_NONE
        THEN [pollctl_relink_fd(w, fd, new, con) EXCEPT !.ret = new]
        ELSE linked(pollctl_link_fd(w, fd, new, con))

\* The kind to record comes back in ret.
_set_fd_polling(w, fd, old, new, con) ==
    LET linked(x) ==
            IF x.rc = SLURM_SUCCESS THEN [x EXCEPT !.ret = new]
            ELSE IF x.rc = EPERM THEN [x EXCEPT !.ret = PCTL_TYPE_UNSUPPORTED]
            ELSE [x EXCEPT !.fatal = TRUE, !.ret = old]
    IN  IF old = PCTL_TYPE_UNSUPPORTED THEN [w EXCEPT !.ret = PCTL_TYPE_UNSUPPORTED]
        ELSE IF old = new THEN [w EXCEPT !.ret = new]
        ELSE IF new = PCTL_TYPE_NONE
        THEN [pollctl_unlink_fd(w, fd, con) EXCEPT !.ret = new]
        ELSE IF old # PCTL_TYPE_NONE
        THEN [pollctl_relink_fd(w, fd, new, con) EXCEPT !.ret = new]
        ELSE linked(pollctl_link_fd(w, fd, new, con))

\* ------------------------------------------------------- con_set_polling
\* the input switch with READ_WRITE not split between two distinct fds
con_set_polling_in_type_unsplit(type, is_same) ==
    CASE type = PCTL_TYPE_NONE -> PCTL_TYPE_NONE
      [] type = PCTL_TYPE_CONNECTED -> PCTL_TYPE_CONNECTED
      [] type = PCTL_TYPE_READ_ONLY -> PCTL_TYPE_READ_ONLY
      [] type = PCTL_TYPE_READ_WRITE -> PCTL_TYPE_READ_WRITE
      [] type = PCTL_TYPE_WRITE_ONLY ->
            IF is_same THEN PCTL_TYPE_WRITE_ONLY ELSE PCTL_TYPE_NONE
      [] type = PCTL_TYPE_LISTEN -> PCTL_TYPE_LISTEN

\* the switch of con_set_polling: the kind asked of the input fd
con_set_polling_in_type(type, is_same) ==
    CASE type = PCTL_TYPE_NONE -> PCTL_TYPE_NONE
      [] type = PCTL_TYPE_CONNECTED -> PCTL_TYPE_CONNECTED
      [] type = PCTL_TYPE_READ_ONLY -> PCTL_TYPE_READ_ONLY
      [] type = PCTL_TYPE_READ_WRITE ->
            IF is_same THEN PCTL_TYPE_READ_WRITE ELSE PCTL_TYPE_READ_ONLY
      [] type = PCTL_TYPE_WRITE_ONLY ->
            IF is_same THEN PCTL_TYPE_WRITE_ONLY ELSE PCTL_TYPE_NONE
      [] type = PCTL_TYPE_LISTEN -> PCTL_TYPE_LISTEN

\* the switch of con_set_polling: the kind asked of the output fd
con_set_polling_out_type(type, is_same) ==
    CASE type = PCTL_TYPE_NONE -> PCTL_TYPE_NONE
      [] type = PCTL_TYPE_CONNECTED ->
            IF is_same THEN PCTL_TYPE_NONE ELSE PCTL_TYPE_CONNECTED
      [] type = PCTL_TYPE_READ_ONLY -> PCTL_TYPE_NONE
      [] type = PCTL_TYPE_READ_WRITE ->
            IF is_same THEN PCTL_TYPE_NONE ELSE PCTL_TYPE_WRITE_ONLY
      [] type = PCTL_TYPE_WRITE_ONLY ->
            IF is_same THEN PCTL_TYPE_NONE ELSE PCTL_TYPE_WRITE_ONLY
      [] type = PCTL_TYPE_LISTEN -> PCTL_TYPE_NONE

\* the assertions a caller of con_set_polling has to meet
con_set_polling_asserts(con, type) ==
    /\ con.input_fd >= 0 \/ con.output_fd >= 0
    /\ type = PCTL_TYPE_LISTEN => con.is_listen
    /\ con.input_fd = con.output_fd => con.polling_output_fd = PCTL_TYPE_NONE

\* con_set_polling that does not record the kind _set_fd_polling returns
\* for the input side
con_set_polling_drops_result(w, c, type) ==
    LET con == w.cons[c]
        is_same == con.input_fd = con.output_fd
        in_type == IF con.polling_input_fd = PCTL_TYPE_UNSUPPORTED
                   THEN PCTL_TYPE_UNSUPPORTED
                   ELSE con_set_polling_in_type(type, is_same)
        out_type == IF con.polling_output_fd = PCTL_TYPE_UNSUPPORTED
                    THEN PCTL_TYPE_UNSUPPORTED
                    ELSE con_set_polling_out_type(type, is_same)
        rec_in(x) == x
        rec_out(x) == [x EXCEPT !.cons[c].polling_output_fd = x.ret]
        set_in(x) ==
            IF is_same \/ con.input_fd >= 0
            THEN rec_in(_set_fd_polling(x, con.input_fd, con.polling_input_fd,
                                        in_type, c))
            ELSE x
        set_out(x) ==
            IF ~is_same /\ con.output_fd >= 0
            THEN rec_out(_set_fd_polling(x, con.output_fd, con.polling_output_fd,
                                         out_type, c))
            ELSE x
    IN  set_out(set_in(w))

con_set_polling(w, c, type) ==
    LET con == w.cons[c]
        is_same == con.input_fd = con.output_fd
        in_type == IF con.polling_input_fd = PCTL_TYPE_UNSUPPORTED
                   THEN PCTL_TYPE_UNSUPPORTED
                   ELSE con_set_polling_in_type(type, is_same)
        out_type == IF con.polling_output_fd = PCTL_TYPE_UNSUPPORTED
                    THEN PCTL_TYPE_UNSUPPORTED
                    ELSE con_set_polling_out_type(type, is_same)
        rec_in(x) == [x EXCEPT !.cons[c].polling_input_fd = x.ret]
        rec_out(x) == [x EXCEPT !.cons[c].polling_output_fd = x.ret]
        set_in(x) ==
            IF is_same \/ con.input_fd >= 0
            THEN rec_in(_set_fd_polling(x, con.input_fd, con.polling_input_fd,
                                        in_type, c))
            ELSE x
        set_out(x) ==
            IF ~is_same /\ con.output_fd >= 0
            THEN rec_out(_set_fd_polling(x, con.output_fd, con.polling_output_fd,
                                         out_type, c))
            ELSE x
    IN  set_out(set_in(w))

\* ------------------------------------------------------------- close_con
\* close_con that leaves can_read as it was
close_con_keeps_can_read(w, locked, c) ==
    LET con == w.cons[c]
        lock(x) == IF locked THEN x ELSE mutex_lock(x)
        unlock(x) == IF locked THEN x ELSE mutex_unlock(x)
        unlink_ghost(x) == IF con.is_listen /\ con.unix_socket # NULL
                           THEN sys_unlink(x, con.unix_socket, c) ELSE x
        mark_eof(x) == [x EXCEPT !.cons[c].read_eof = TRUE,
                                 !.cons[c].in_off = 0]
        close_input(x) ==
            IF con.is_listen THEN sys_close(x, con.input_fd, c)
            ELSE IF con.input_fd # con.output_fd THEN sys_close(x, con.input_fd, c)
            ELSE IF con.is_socket THEN sys_shutdown_rd(x, con.input_fd, c)
            ELSE x
        forget(x) == EVENT_SIGNAL([x EXCEPT !.cons[c].input_fd = -1])
        closing(x) ==
            IF con.input_fd < 0 THEN x
            ELSE forget(close_input(mark_eof(
                     con_set_polling(unlink_ghost(x), c, PCTL_TYPE_NONE))))
    IN  unlock(closing(lock(w)))

\* close_con that closes an fd shared by input and output
close_con_closes_shared(w, locked, c) ==
    LET con == w.cons[c]
        lock(x) == IF locked THEN x ELSE mutex_lock(x)
        unlock(x) == IF locked THEN x ELSE mutex_unlock(x)
        unlink_ghost(x) == IF con.is_listen /\ con.unix_socket # NULL
                           THEN sys_unlink(x, con.unix_socket, c) ELSE x
        mark_eof(x) == [x EXCEPT !.cons[c].read_eof = TRUE,
                                 !.cons[c].can_read = FALSE,
                                 !.cons[c].in_off = 0]
        close_input(x) ==
            IF con.is_listen THEN sys_close(x, con.input_fd, c)
            ELSE IF con.input_fd # con.output_fd THEN sys_close(x, con.input_fd, c)
            ELSE sys_close(x, con.input_fd, c)
        forget(x) == EVENT_SIGNAL([x EXCEPT !.cons[c].input_fd = -1])
        closing(x) ==
            IF con.input_fd < 0 THEN x
            ELSE forget(close_input(mark_eof(
                     con_set_polling(unlink_ghost(x), c, PCTL_TYPE_NONE))))
    IN  unlock(closing(lock(w)))

\* close_con that forgets the polling kind along with the input fd
close_con_resets_polling(w, locked, c) ==
    LET con == w.cons[c]
        lock(x) == IF locked THEN x ELSE mutex_lock(x)
        unlock(x) == IF locked THEN x ELSE mutex_unlock(x)
        unlink_ghost(x) == IF con.is_listen /\ con.unix_socket # NULL
                           THEN sys_unlink(x, con.unix_socket, c) ELSE x
        mark_eof(x) == [x EXCEPT !.cons[c].read_eof = TRUE,
                                 !.cons[c].can_read = FALSE,
                                 !.cons[c].in_off = 0]
        close_input(x) ==
            IF con.is_listen THEN sys_close(x, con.input_fd, c)
            ELSE IF con.input_fd # con.output_fd THEN sys_close(x, con.input_fd, c)
            ELSE IF con.is_socket THEN sys_shutdown_rd(x, con.input_fd, c)
            ELSE x
        forget(x) ==
            EVENT_SIGNAL([x EXCEPT !.cons[c].input_fd = -1,
                                   !.cons[c].polling_input_fd = PCTL_TYPE_NONE])
        closing(x) ==
            IF con.input_fd < 0 THEN x
            ELSE forget(close_input(mark_eof(
                     con_set_polling(unlink_ghost(x), c, PCTL_TYPE_NONE))))
    IN  unlock(closing(lock(w)))

\* close_con that leaves the polling kinds as they were
close_con_keeps_polling(w, locked, c) ==
    LET con == w.cons[c]
        lock(x) == IF locked THEN x ELSE mutex_lock(x)
        unlock(x) == IF locked THEN x ELSE mutex_unlock(x)
        unlink_ghost(x) == IF con.is_listen /\ con.unix_socket # NULL
                           THEN sys_unlink(x, con.unix_socket, c) ELSE x
        mark_eof(x) == [x EXCEPT !.cons[c].read_eof = TRUE,
                                 !.cons[c].can_read = FALSE,
                                 !.cons[c].in_off = 0]
        close_input(x) ==
            IF con.is_listen THEN sys_close(x, con.input_fd, c)
            ELSE IF con.input_fd # con.output_fd THEN sys_close(x, con.input_fd, c)
            ELSE IF con.is_socket THEN sys_shutdown_rd(x, con.input_fd, c)
            ELSE x
        forget(x) == EVENT_SIGNAL([x EXCEPT !.cons[c].input_fd = -1])
        closing(x) ==
            IF con.input_fd < 0 THEN x
            ELSE forget(close_input(mark_eof(unlink_ghost(x))))
    IN  unlock(closing(lock(w)))

\* close_con that closes the input before it stops polling
close_con_closes_first(w, locked, c) ==
    LET con == w.cons[c]
        lock(x) == IF locked THEN x ELSE mutex_lock(x)
        unlock(x) == IF locked THEN x ELSE mutex_unlock(x)
        unlink_ghost(x) == IF con.is_listen /\ con.unix_socket # NULL
                           THEN sys_unlink(x, con.unix_socket, c) ELSE x
        mark_eof(x) == [x EXCEPT !.cons[c].read_eof = TRUE,
                                 !.cons[c].can_read = FALSE,
                                 !.cons[c].in_off = 0]
        close_input(x) ==
            IF con.is_listen THEN sys_close(x, con.input_fd, c)
            ELSE IF con.input_fd # con.output_fd THEN sys_close(x, con.input_fd, c)
            ELSE IF con.is_socket THEN sys_shutdown_rd(x, con.input_fd, c)
            ELSE x
        forget(x) == EVENT_SIGNAL([x EXCEPT !.cons[c].input_fd = -1])
        closing(x) ==
            IF con.input_fd < 0 THEN x
            ELSE forget(con_set_polling(close_input(mark_eof(unlink_ghost(x))),
                                        c, PCTL_TYPE_NONE))
    IN  unlock(closing(lock(w)))

close_con(w, locked, c) ==
    LET con == w.cons[c]
        lock(x) == IF locked THEN x ELSE mutex_lock(x)
        unlock(x) == IF locked THEN x ELSE mutex_unlock(x)
        unlink_ghost(x) == IF con.is_listen /\ con.unix_socket # NULL
                           THEN sys_unlink(x, con.unix_socket, c) ELSE x
        mark_eof(x) == [x EXCEPT !.cons[c].read_eof = TRUE,
                                 !.cons[c].can_read = FALSE,
                                 !.cons[c].in_off = 0]
        close_input(x) ==
            IF con.is_listen THEN sys_close(x, con.input_fd, c)
            ELSE IF con.input_fd # con.output_fd THEN sys_close(x, con.input_fd, c)
            ELSE IF con.is_socket THEN sys_shutdown_rd(x, con.input_fd, c)
            ELSE x
        forget(x) == EVENT_SIGNAL([x EXCEPT !.cons[c].input_fd = -1])
        closing(x) ==
            IF con.input_fd < 0 THEN x
            ELSE forget(close_input(mark_eof(
                     con_set_polling(unlink_ghost(x), c, PCTL_TYPE_NONE))))
    IN  unlock(closing(lock(w)))

\* -------------------------------------------------------- add_connection
NoSpec == [type |-> "", events |-> {}, arg |-> NULL]

\* what a caller supplies for a new connection: RAW needs on_data, RPC on_msg
ConSpecs ==
    {[type |-> CON_TYPE_RAW, events |-> {"on_data"}, arg |-> "argA"],
     [type |-> CON_TYPE_RPC, events |-> {"on_msg"}, arg |-> "argB"]}

\* _set_connection_name without the case of two missing descriptors
_set_connection_name_by_side(input_fd, output_fd) ==
    IF input_fd = output_fd THEN "in(fd)"
    ELSE IF input_fd >= 0 /\ output_fd >= 0 THEN "in(fd)->out(fd)"
    ELSE IF input_fd >= 0 THEN "in(fd)->()"
    ELSE "()->out(fd)"

_set_connection_name(input_fd, output_fd) ==
    IF input_fd < 0 /\ output_fd < 0 THEN "INVALID"
    ELSE IF input_fd = output_fd THEN "in(fd)"
    ELSE IF input_fd >= 0 /\ output_fd >= 0 THEN "in(fd)->out(fd)"
    ELSE IF input_fd >= 0 THEN "in(fd)->()"
    ELSE "()->out(fd)"

\* add_connection that appends a listener to the active list as well
add_connection_enlists_twice(w, type, source, input_fd, output_fd, events, addr, is_listen, unix_socket_path, arg, fstat_ok) ==
    LET has_in == input_fd >= 0
        has_out == output_fd >= 0
        is_same == input_fd = output_fd
        in_bad == has_in /\ ~(w.fdtab[input_fd].open /\ fstat_ok)
        out_bad == has_out /\ ~(w.fdtab[output_fd].open /\ fstat_ok)
        is_socket == \/ has_in /\ w.fdtab[input_fd].kind = "sock"
                     \/ has_out /\ w.fdtab[output_fd].kind = "sock"
        set_keep_alive == unix_socket_path = NULL /\ is_socket /\ ~is_listen
        ka(tab, fd) == IF set_keep_alive /\ tab[fd].kind = "sock"
                       THEN [tab EXCEPT ![fd].keepalive = TRUE] ELSE tab
        nb(tab, fd) == [tab EXCEPT ![fd].nonblock = TRUE]
        tab_in(tab) == IF has_in THEN nb(ka(tab, input_fd), input_fd) ELSE tab
        tab_out(tab) == IF ~is_same /\ has_out
                        THEN ka(nb(tab, output_fd), output_fd) ELSE tab
        c == Len(w.cons) + 1
        con == [input_fd |-> input_fd,
                read_eof |-> ~has_in,
                output_fd |-> output_fd,
                events |-> events,
                is_socket |-> is_socket,
                is_listen |-> is_listen,
                is_connected |-> FALSE,
                can_read |-> FALSE,
                work_active |-> FALSE,
                work |-> <<>>,
                in_off |-> 0,
                out |-> <<>>,
                new_arg |-> arg,
                arg |-> NULL,
                type |-> type,
                polling_input_fd |-> PCTL_TYPE_NONE,
                polling_output_fd |-> PCTL_TYPE_NONE,
                unix_socket |-> IF unix_socket_path # NULL THEN unix_socket_path
                                ELSE IF source # 0 THEN w.cons[source].unix_socket
                                ELSE NULL,
                address |-> IF is_socket THEN addr ELSE NoAddr,
                name |-> _set_connection_name(input_fd, output_fd)]
        enlist(x) == IF is_listen
                     THEN [x EXCEPT !.listen_conns = Append(@, c),
                                    !.connections = Append(@, c)]
                     ELSE [x EXCEPT !.connections = Append(@, c)]
    IN  IF in_bad \/ out_bad THEN [w EXCEPT !.rc = SLURM_ERROR]
        ELSE mutex_unlock(EVENT_SIGNAL(pollctl_interrupt(enlist(mutex_lock(
                 [w EXCEPT !.fdtab = tab_out(tab_in(@)),
                           !.cons = Append(@, con),
                           !.rc = SLURM_SUCCESS])))))

\* fstat_ok: whether fstat() succeeds on an open descriptor (it always fails
\* on one that is not open).  source = 0 stands for a NULL source, NoAddr
\* for a NULL addr, NULL for no unix socket path.  The result is left in rc.
\* add_connection that wakes the watch loop before it looks at the fds
add_connection_wakes_first(w, type, source, input_fd, output_fd, events, addr, is_listen, unix_socket_path, arg, fstat_ok) ==
    LET has_in == input_fd >= 0
        has_out == output_fd >= 0
        is_same == input_fd = output_fd
        in_bad == has_in /\ ~(w.fdtab[input_fd].open /\ fstat_ok)
        out_bad == has_out /\ ~(w.fdtab[output_fd].open /\ fstat_ok)
        is_socket == \/ has_in /\ w.fdtab[input_fd].kind = "sock"
                     \/ has_out /\ w.fdtab[output_fd].kind = "sock"
        set_keep_alive == unix_socket_path = NULL /\ is_socket /\ ~is_listen
        ka(tab, fd) == IF set_keep_alive /\ tab[fd].kind = "sock"
                       THEN [tab EXCEPT ![fd].keepalive = TRUE] ELSE tab
        nb(tab, fd) == [tab EXCEPT ![fd].nonblock = TRUE]
        tab_in(tab) == IF has_in THEN nb(ka(tab, input_fd), input_fd) ELSE tab
        tab_out(tab) == IF ~is_same /\ has_out
                        THEN ka(nb(tab, output_fd), output_fd) ELSE tab
        c == Len(w.cons) + 1
        con == [input_fd |-> input_fd,
                read_eof |-> ~has_in,
                output_fd |-> output_fd,
                events |-> events,
                is_socket |-> is_socket,
                is_listen |-> is_listen,
                is_connected |-> FALSE,
                can_read |-> FALSE,
                work_active |-> FALSE,
                work |-> <<>>,
                in_off |-> 0,
                out |-> <<>>,
                new_arg |-> arg,
                arg |-> NULL,
                type |-> type,
                polling_input_fd |-> PCTL_TYPE_NONE,
                polling_output_fd |-> PCTL_TYPE_NONE,
                unix_socket |-> IF unix_socket_path # NULL THEN unix_socket_path
                                ELSE IF source # 0 THEN w.cons[source].unix_socket
                                ELSE NULL,
                address |-> IF is_socket THEN addr ELSE NoAddr,
                name |-> _set_connection_name(input_fd, output_fd)]
        enlist(x) == IF is_listen
                     THEN [x EXCEPT !.listen_conns = Append(@, c)]
                     ELSE [x EXCEPT !.connections = Append(@, c)]
    IN  IF in_bad \/ out_bad
        THEN [mutex_unlock(EVENT_SIGNAL(pollctl_interrupt(mutex_lock(w))))
                 EXCEPT !.rc = SLURM_ERROR]
        ELSE mutex_unlock(EVENT_SIGNAL(pollctl_interrupt(enlist(mutex_lock(
                 [w EXCEPT !.fdtab = tab_out(tab_in(@)),
                           !.cons = Append(@, con),
                           !.rc = SLURM_SUCCESS])))))

add_connection(w, type, source, input_fd, output_fd, events, addr, is_listen, unix_socket_path, arg, fstat_ok) ==
    LET has_in == input_fd >= 0
        has_out == output_fd >= 0
        is_same == input_fd = output_fd
        in_bad == has_in /\ ~(w.fdtab[input_fd].open /\ fstat_ok)
        out_bad == has_out /\ ~(w.fdtab[output_fd].open /\ fstat_ok)
        is_socket == \/ has_in /\ w.fdtab[input_fd].kind = "sock"
                     \/ has_out /\ w.fdtab[output_fd].kind = "sock"
        set_keep_alive == unix_socket_path = NULL /\ is_socket /\ ~is_listen
        ka(tab, fd) == IF set_keep_alive /\ tab[fd].kind = "sock"
                       THEN [tab EXCEPT ![fd].keepalive = TRUE] ELSE tab
        nb(tab, fd) == [tab EXCEPT ![fd].nonblock = TRUE]
        tab_in(tab) == IF has_in THEN nb(ka(tab, input_fd), input_fd) ELSE tab
        tab_out(tab) == IF ~is_same /\ has_out
                        THEN ka(nb(tab, output_fd), output_fd) ELSE tab
        c == Len(w.cons) + 1
        con == [input_fd |-> input_fd,
                read_eof |-> ~has_in,
                output_fd |-> output_fd,
                events |-> events,
                is_socket |-> is_socket,
                is_listen |-> is_listen,
                is_connected |-> FALSE,
                can_read |-> FALSE,
                work_active |-> FALSE,
                work |-> <<>>,
                in_off |-> 0,
                out |-> <<>>,
                new_arg |-> arg,
                arg |-> NULL,
                type |-> type,
                polling_input_fd |-> PCTL_TYPE_NONE,
                polling_output_fd |-> PCTL_TYPE_NONE,
                unix_socket |-> IF unix_socket_path # NULL THEN unix_socket_path
                                ELSE IF source # 0 THEN w.cons[source].unix_socket
                                ELSE NULL,
                address |-> IF is_socket THEN addr ELSE NoAddr,
                name |-> _set_connection_name(input_fd, output_fd)]
        enlist(x) == IF is_listen
                     THEN [x EXCEPT !.listen_conns = Append(@, c)]
                     ELSE [x EXCEPT !.connections = Append(@, c)]
    IN  IF in_bad \/ out_bad THEN [w EXCEPT !.rc = SLURM_ERROR]
        ELSE mutex_unlock(EVENT_SIGNAL(pollctl_interrupt(enlist(mutex_lock(
                 [w EXCEPT !.fdtab = tab_out(tab_in(@)),
                           !.cons = Append(@, con),
                           !.rc = SLURM_SUCCESS])))))

conmgr_process_fd(w, type, input_fd, output_fd, events, addr, arg, fstat_ok) ==
    add_connection(w, type, 0, input_fd, output_fd, events, addr, FALSE, NULL,
                   arg, fstat_ok)

\* conmgr_process_fd_listen that hands the fd over as output too
conmgr_process_fd_listen_both(w, fd, type, events, addr, arg, fstat_ok) ==
    add_connection(w, type, 0, fd, fd, events, addr, TRUE, NULL, arg, fstat_ok)

conmgr_process_fd_listen(w, fd, type, events, addr, arg, fstat_ok) ==
    add_connection(w, type, 0, fd, -1, events, addr, TRUE, NULL, arg, fstat_ok)

conmgr_process_fd_unix_listen(w, type, fd, events, addr, path, arg, fstat_ok) ==
    add_connection(w, type, 0, fd, -1, events, addr, TRUE, path, arg, fstat_ok)

\* ------------------------------------------------------------ change mode
\* the assertions of _check_con_type: RAW needs on_data, RPC needs on_msg
_check_con_type(con, type) ==
    IF type = CON_TYPE_RAW THEN "on_data" \in con.events
    ELSE IF type = CON_TYPE_RPC THEN "on_msg" \in con.events
    ELSE FALSE

\* fd_change_mode that drops the unread input along with the old type
fd_change_mode_drops_input(w, c, type) ==
    IF w.cons[c].type = type THEN [w EXCEPT !.rc = SLURM_SUCCESS]
    ELSE [w EXCEPT !.cons[c].type = type, !.cons[c].in_off = 0,
                   !.rc = SLURM_SUCCESS]

fd_change_mode(w, c, type) ==
    IF w.cons[c].type = type THEN [w EXCEPT !.rc = SLURM_SUCCESS]
    ELSE [w EXCEPT !.cons[c].type = type, !.rc = SLURM_SUCCESS]

conmgr_fd_change_mode(w, c, type) ==
    mutex_unlock(EVENT_SIGNAL(fd_change_mode(mutex_lock(w), c, type)))

\* ----------------------------------------------------- wrap_on_connection
\* wrap_on_connection that leaves the connection open on a NULL return
wrap_on_connection_keeps_open(w, c, arg) ==
    LET called(x) == Call(x, "on_connection", -1, arg, c)
    IN  IF arg = NULL THEN called(w)
        ELSE mutex_unlock(EVENT_SIGNAL(
                 [mutex_lock(called(w)) EXCEPT !.cons[c].arg = arg]))

\* arg: what the on_connection callback returns
wrap_on_connection(w, c, arg) ==
    LET called(x) == Call(x, "on_connection", -1, arg, c)
    IN  IF arg = NULL THEN close_con(called(w), FALSE, c)
        ELSE mutex_unlock(EVENT_SIGNAL(
                 [mutex_lock(called(w)) EXCEPT !.cons[c].arg = arg]))

\* ------------------------------------------------------------ work queue
\* work.c is not part of the tree: connection work is appended to the
\* connection's FIFO work queue (section 3, work_queue).
NoWork == [func |-> "", fd |-> -1, spec |-> NoSpec]

add_work(w, c, work) == [w EXCEPT !.cons[c].work = Append(@, work)]

add_work_con_fifo(w, c, func) ==
    add_work(w, c, [func |-> func, fd |-> -1, spec |-> NoSpec])

\* ------------------------------------------------------------ fd passing
\* _receive_fd that leaves the source open when recvmsg() fails
_receive_fd_keeps_src(w, src, status, args, recv_kind, fstat_ok) ==
    LET con == w.cons[src]
        fd == IF recv_kind = "none" THEN -1 ELSE LowestFree(w.fdtab)
    IN  IF status = CONMGR_WORK_STATUS_CANCELLED THEN w
        ELSE IF con.read_eof THEN w
        ELSE IF con.input_fd < 0 THEN w
        ELSE IF fd < 0
        THEN Call(w, "recvmsg", con.input_fd, "", src)
        ELSE add_connection([Call(w, "recvmsg", con.input_fd, "", src)
                                EXCEPT !.fdtab[fd] = OpenFd(recv_kind)],
                            args.type, 0, fd, fd, args.events, NoAddr, FALSE,
                            NULL, args.arg, fstat_ok)

\* _receive_fd that does not look at the status
_receive_fd_ignores_status(w, src, status, args, recv_kind, fstat_ok) ==
    LET con == w.cons[src]
        fd == IF recv_kind = "none" THEN -1 ELSE LowestFree(w.fdtab)
    IN  IF con.read_eof THEN w
        ELSE IF con.input_fd < 0 THEN w
        ELSE IF fd < 0
        THEN close_con(Call(w, "recvmsg", con.input_fd, "", src), FALSE, src)
        ELSE add_connection([Call(w, "recvmsg", con.input_fd, "", src)
                                EXCEPT !.fdtab[fd] = OpenFd(recv_kind)],
                            args.type, 0, fd, fd, args.events, NoAddr, FALSE,
                            NULL, args.arg, fstat_ok)

\* recv_kind: the kind of file the peer passed, or "none" when recvmsg()
\* fails; the new descriptor takes the lowest free number.
_receive_fd(w, src, status, args, recv_kind, fstat_ok) ==
    LET con == w.cons[src]
        fd == IF recv_kind = "none" THEN -1 ELSE LowestFree(w.fdtab)
    IN  IF status = CONMGR_WORK_STATUS_CANCELLED THEN w
        ELSE IF con.read_eof THEN w
        ELSE IF con.input_fd < 0 THEN w
        ELSE IF fd < 0
        THEN close_con(Call(w, "recvmsg", con.input_fd, "", src), FALSE, src)
        ELSE add_connection([Call(w, "recvmsg", con.input_fd, "", src)
                                EXCEPT !.fdtab[fd] = OpenFd(recv_kind)],
                            args.type, 0, fd, fd, args.events, NoAddr, FALSE,
                            NULL, args.arg, fstat_ok)

conmgr_queue_receive_fd(w, src, args) ==
    LET con == w.cons[src]
        queue(x) ==
            IF ~con.is_socket THEN [x EXCEPT !.rc = EAFNOSUPPORT]
            ELSE IF con.read_eof
            THEN [x EXCEPT !.rc = SLURM_COMMUNICATIONS_MISSING_SOCKET_ERROR]
            ELSE IF con.input_fd < 0
            THEN [x EXCEPT !.rc = SLURM_COMMUNICATIONS_MISSING_SOCKET_ERROR]
            ELSE [add_work(x, src, [func |-> "_receive_fd", fd |-> -1,
                                    spec |-> args])
                     EXCEPT !.rc = SLURM_SUCCESS]
    IN  mutex_unlock(queue(mutex_lock(w)))

\* _send_fd that returns early, without closing, when cancelled
_send_fd_early_return(w, c, status, fd) ==
    IF status = CONMGR_WORK_STATUS_CANCELLED THEN w
    ELSE IF w.cons[c].output_fd < 0 THEN sys_close(w, fd, 0)
    ELSE sys_close(Call(w, "sendmsg", w.cons[c].output_fd, "", c), fd, 0)

_send_fd(w, c, status, fd) ==
    LET con == w.cons[c]
        send(x) == IF status = CONMGR_WORK_STATUS_CANCELLED THEN x
                   ELSE IF con.output_fd < 0 THEN x
                   ELSE Call(x, "sendmsg", con.output_fd, "", c)
    IN  sys_close(send(w), fd, 0)

\* conmgr_queue_send_fd without the is_socket test
conmgr_queue_send_fd_any_kind(w, c, fd) ==
    LET con == w.cons[c]
        queue(x) ==
            IF fd < 0 THEN [x EXCEPT !.rc = EINVAL]
            ELSE IF con.output_fd < 0
            THEN [x EXCEPT !.rc = SLURM_COMMUNICATIONS_MISSING_SOCKET_ERROR]
            ELSE [add_work(x, c, [func |-> "_send_fd", fd |-> fd,
                                  spec |-> NoSpec])
                     EXCEPT !.rc = SLURM_SUCCESS]
    IN  mutex_unlock(queue(mutex_lock(w)))

conmgr_queue_send_fd(w, c, fd) ==
    LET con == w.cons[c]
        queue(x) ==
            IF fd < 0 THEN [x EXCEPT !.rc = EINVAL]
            ELSE IF ~con.is_socket THEN [x EXCEPT !.rc = EAFNOSUPPORT]
            ELSE IF con.output_fd < 0
            THEN [x EXCEPT !.rc = SLURM_COMMUNICATIONS_MISSING_SOCKET_ERROR]
            ELSE [add_work(x, c, [func |-> "_send_fd", fd |-> fd,
                                  spec |-> NoSpec])
                     EXCEPT !.rc = SLURM_SUCCESS]
    IN  mutex_unlock(queue(mutex_lock(w)))

\* --------------------------------------------------------- close request
conmgr_queue_close_fd(w, c) ==
    LET request(x) ==
            IF ~x.cons[c].work_active
            THEN add_work_con_fifo(x, c, "_deferred_close_fd")
            ELSE close_con(x, TRUE, c)
    IN  mutex_unlock(request(mutex_lock(w)))

\* _deferred_close_fd that queues itself again while work is active
_deferred_close_fd_requeues(w, c) ==
    IF w.cons[c].work_active
    THEN add_work_con_fifo(mutex_unlock(mutex_lock(w)), c, "_deferred_close_fd")
    ELSE mutex_unlock(close_con(mutex_lock(w), TRUE, c))

_deferred_close_fd(w, c) ==
    IF w.cons[c].work_active
    THEN conmgr_queue_close_fd(mutex_unlock(mutex_lock(w)), c)
    ELSE mutex_unlock(close_con(mutex_lock(w), TRUE, c))

con_close_on_poll_error(w, c, fd) ==
    close_con(IF w.cons[c].is_socket THEN Call(w, "getsockopt", fd, "", c) ELSE w,
              TRUE, c)

RECURSIVE _close_con_for_each(_, _)
_close_con_for_each(w, list) ==
    IF list = <<>> THEN w
    ELSE _close_con_for_each(close_con(w, TRUE, Head(list)), Tail(list))

close_all_connections(w) ==
    _close_con_for_each(_close_con_for_each(w, w.connections), w.listen_conns)

\* -------------------------------------------------------------- listeners
Inet(addr, port) ==
    [family |-> "AF_INET", addr |-> addr, port |-> port, scope |-> 0, path |-> ""]

Inet6(addr, port, scope) ==
    [family |-> "AF_INET6", addr |-> addr, port |-> port, scope |-> scope, path |-> ""]

Unix(path) ==
    [family |-> "AF_UNIX", addr |-> 0, port |-> 0, scope |-> 0, path |-> path]

UNIX_PREFIX == "unix:"

\* the listen_on strings callers pass
ListenOn == {"unix:/x", "h4:1", "h4:2", "dual:1", "ll%1:1"}

\* the path after UNIX_PREFIX, NULL when listen_on has no such prefix
UnixPath(listen_on) == IF listen_on = "unix:/x" THEN "/x" ELSE NULL

\* callbacks.parse() and xgetaddrinfo() are external: the address list each
\* host:port resolves to ("dual" resolves to an IPv6 and an IPv4 address)
xgetaddrinfo(listen_on) ==
    CASE listen_on = "h4:1" -> <<Inet(1, 1)>>
      [] listen_on = "h4:2" -> <<Inet(1, 2)>>
      [] listen_on = "dual:1" -> <<Inet6(1, 1, 0), Inet(1, 1)>>
      [] listen_on = "ll%1:1" -> <<Inet6(1, 1, 1)>>
      [] OTHER -> <<>>

_match_socket_address(con, addr1) ==
    LET addr2 == con.address
    IN  IF addr1.family # addr2.family THEN FALSE
        ELSE CASE addr1.family = "AF_INET" ->
                    addr1.port = addr2.port /\ addr1.addr = addr2.addr
               [] addr1.family = "AF_INET6" ->
                    /\ addr1.port = addr2.port
                    /\ addr1.scope = addr2.scope
                    /\ addr1.addr = addr2.addr
               [] addr1.family = "AF_UNIX" -> addr1.path = addr2.path
               [] OTHER -> FALSE

_is_listening(w, addr) ==
    \E i \in DOMAIN w.listen_conns :
        _match_socket_address(w.cons[w.listen_conns[i]], addr)

\* socket(): a new stream socket on the lowest free descriptor
sys_socket(w) ==
    [Call(w, "socket", LowestFree(w.fdtab), "", 0)
        EXCEPT !.fdtab[LowestFree(w.fdtab)] = OpenFd("sock")]

\* bind() fails with EADDRINUSE while another open socket holds the address
AddrInUse(w, addr) == \E f \in FDs : w.fdtab[f].open /\ w.fdtab[f].bound = addr

sys_bind(w, fd, addr) ==
    [Call(w, "bind", fd, "", 0) EXCEPT !.fdtab[fd].bound = addr]

sys_listen(w, fd) == Call(w, "listen", fd, "", 0)

\* the loop of conmgr_create_listen_socket over the resolved addresses; rc
\* is carried in the world
RECURSIVE create_listen_socket_loop(_, _, _, _, _, _)
create_listen_socket_loop(w, addrlist, type, events, arg, fstat_ok) ==
    LET listen_one(x, addr, fd) ==
            IF _is_listening(x, addr) THEN x
            ELSE IF fd < 0 \/ AddrInUse(x, addr) THEN [x EXCEPT !.fatal = TRUE]
            ELSE conmgr_process_fd_listen(
                     sys_listen(sys_bind(sys_socket(x), fd, addr), fd),
                     fd, type, events, addr, arg, fstat_ok)
    IN  IF addrlist = <<>> \/ w.rc # SLURM_SUCCESS \/ w.fatal THEN w
        ELSE create_listen_socket_loop(
                 listen_one(w, Head(addrlist), LowestFree(w.fdtab)),
                 Tail(addrlist), type, events, arg, fstat_ok)

conmgr_create_listen_socket(w, type, listen_on, events, arg, fstat_ok) ==
    LET unixsock == UnixPath(listen_on)
        callbacks(x) == mutex_unlock(mutex_lock([x EXCEPT !.rc = SLURM_SUCCESS]))
        listen_unix(x, fd) ==
            IF fd < 0 THEN [Call(x, "socket", fd, "", 0) EXCEPT !.fatal = TRUE]
            ELSE conmgr_process_fd_unix_listen(
                     sys_listen(sys_bind(sys_unlink(sys_socket(x), unixsock, 0),
                                         fd, Unix(unixsock)), fd),
                     type, fd, events, Unix(unixsock), unixsock, arg, fstat_ok)
    IN  IF unixsock # NULL
        THEN listen_unix(callbacks(w), LowestFree(w.fdtab))
        ELSE create_listen_socket_loop(callbacks(w), xgetaddrinfo(listen_on),
                                       type, events, arg, fstat_ok)

\* ----------------------------------------------------------------- dial
EWOULDBLOCK == EAGAIN

\* an address of a family the manager does not dial
Packet == [family |-> "AF_PACKET", addr |-> 0, port |-> 0, scope |-> 0, path |-> ""]

\* the addresses callers dial
DialAddrs == {Inet(2, 1), Unix("/x"), Packet}

\* what successive connect() calls on one socket return: 0 or an errno;
\* every run ends in a result other than EINTR
ConnectRuns ==
    {<<0>>, <<EINPROGRESS>>, <<EAGAIN>>, <<ECONNREFUSED>>,
     <<EINTR, 0>>, <<EINTR, EINPROGRESS>>, <<EINTR, ECONNREFUSED>>,
     <<EINTR, EINTR, EAGAIN>>}

\* the name of what connect() returned, for the call log
ErrName(rc) ==
    CASE rc = 0 -> "0"
      [] rc = EINTR -> "EINTR"
      [] rc = EINPROGRESS -> "EINPROGRESS"
      [] rc = EAGAIN -> "EAGAIN"
      [] OTHER -> "ECONNREFUSED"

sys_connect(w, fd, rc) == Call(w, "connect", fd, ErrName(rc), 0)

fd_set_nonblocking(w, fd) == [w EXCEPT !.fdtab[fd].nonblock = TRUE]

\* conmgr_create_connect_socket that registers the socket after a connect()
\* interrupted during shutdown
RECURSIVE connect_again_ignores_shutdown(_, _, _, _, _, _, _, _, _)
connect_again_ignores_shutdown(w, fd, type, addr, events, arg, errs, shutdown, fstat_ok) ==
    LET rc == Head(errs)
        read_shutdown(x) == mutex_unlock(mutex_lock(x))
    IN  IF rc = EINTR /\ ~shutdown
        THEN connect_again_ignores_shutdown(read_shutdown(sys_connect(w, fd, rc)), fd, type,
                                            addr, events, arg, Tail(errs),
                                            shutdown, fstat_ok)
        ELSE IF rc \notin {0, EINTR, EINPROGRESS, EAGAIN, EWOULDBLOCK}
        THEN [sys_close(sys_connect(w, fd, rc), fd, 0) EXCEPT !.rc = rc]
        ELSE add_connection(sys_connect(w, fd, rc), type, 0, fd, fd, events, addr,
                            FALSE, NULL, arg, fstat_ok)

\* the connect() loop of conmgr_create_connect_socket (label again)
RECURSIVE connect_again(_, _, _, _, _, _, _, _, _)
connect_again(w, fd, type, addr, events, arg, errs, shutdown, fstat_ok) ==
    LET rc == Head(errs)
        read_shutdown(x) == mutex_unlock(mutex_lock(x))
    IN  IF rc = EINTR
        THEN IF shutdown
             THEN [sys_close(read_shutdown(sys_connect(w, fd, rc)), fd, 0)
                      EXCEPT !.rc = SLURM_SUCCESS]
             ELSE connect_again(read_shutdown(sys_connect(w, fd, rc)), fd, type,
                                addr, events, arg, Tail(errs), shutdown, fstat_ok)
        ELSE IF rc \notin {0, EINPROGRESS, EAGAIN, EWOULDBLOCK}
        THEN [sys_close(sys_connect(w, fd, rc), fd, 0) EXCEPT !.rc = rc]
        ELSE add_connection(sys_connect(w, fd, rc), type, 0, fd, fd, events, addr,
                            FALSE, NULL, arg, fstat_ok)

\* conmgr_create_connect_socket that dials whatever the address family
conmgr_create_connect_socket_any_family(w, type, addr, events, arg, errs, shutdown, fstat_ok) ==
    LET fd == LowestFree(w.fdtab)
    IN  IF fd < 0 THEN [Call(w, "socket", fd, "", 0) EXCEPT !.rc = EMFILE]
        ELSE connect_again(fd_set_nonblocking(sys_socket(w), fd), fd, type, addr,
                           events, arg, errs, shutdown, fstat_ok)

\* errs: what the connect() calls return; shutdown: mgr.shutdown_requested
\* as the call reads it
conmgr_create_connect_socket(w, type, addr, events, arg, errs, shutdown, fstat_ok) ==
    LET fd == LowestFree(w.fdtab)
    IN  IF addr.family \notin {"AF_UNIX", "AF_INET", "AF_INET6"}
        THEN [w EXCEPT !.rc = EAFNOSUPPORT]
        ELSE IF fd < 0 THEN [Call(w, "socket", fd, "", 0) EXCEPT !.rc = EMFILE]
        ELSE connect_again(fd_set_nonblocking(sys_socket(w), fd), fd, type, addr,
                           events, arg, errs, shutdown, fstat_ok)

\* ---------------------------------------------------------- finalization
\* Section 4.8, last paragraph: once read_eof is set, the out queue is empty
\* and no work remains, the watch loop runs on_finish, closes output_fd and
\* moves the connection from its list to the complete list.
RemoveId(list, c) == SelectSeq(list, LAMBDA i : i # c)

may_finalize(con) ==
    /\ con.read_eof
    /\ con.input_fd < 0
    /\ con.out = <<>>
    /\ con.work = <<>>
    /\ ~con.work_active

finalize(w, c) ==
    LET con == w.cons[c]
        close_output(x) ==
            IF con.output_fd < 0 THEN x
            ELSE [sys_close(con_set_polling(x, c, PCTL_TYPE_NONE), con.output_fd, c)
                     EXCEPT !.cons[c].output_fd = -1]
        move(x) == [x EXCEPT !.connections = RemoveId(@, c),
                             !.listen_conns = RemoveId(@, c),
                             !.complete_conns = Append(@, c)]
    IN  move(Call(close_output(w), "on_finish", -1, "", c))

\* ------------------------------------------------------------ watch loop
\* watch.c is not part of the tree: the polling kind the loop asks for each
\* connection follows section 4.3, step 1.
watch_polling_kind(con) ==
    IF con.is_listen THEN PCTL_TYPE_LISTEN
    ELSE IF ~con.is_connected THEN PCTL_TYPE_CONNECTED
    ELSE LET rd == ~con.read_eof /\ con.in_off < MaxIn
             wr == con.out # <<>>
         IN  IF rd /\ wr THEN PCTL_TYPE_READ_WRITE
             ELSE IF rd THEN PCTL_TYPE_READ_ONLY
             ELSE IF wr THEN PCTL_TYPE_WRITE_ONLY
             ELSE PCTL_TYPE_NONE

\* ----------------------------------------------------------------- state
\* the connections in the active or the listen list
Live == {c \in DOMAIN cons :
            \A i \in DOMAIN complete_conns : complete_conns[i] # c}

NoLast == [op |-> "init", con |-> 0, rc |-> SLURM_SUCCESS, type |-> "", fd |-> -1]

Idle == [con |-> 0, work |-> NoWork]

\* no gres_select_util function has been called
NoJob == [fn |-> "none"]

\* the statics of signal.c as they are initialized, and what lies outside
\* them: the signals whose disposition is _signal_handler, whether
\* _atfork_child is registered, the read end and the bytes of the self-pipe,
\* the bytes of the connection's input buffer, whether _on_finish is between
\* its close() and its store to signal_fd, whether this is a forked child,
\* and the signal whose handler is inside a write() that has not returned
NoBridge ==
    [lock |-> "unlocked", one_time_init |-> FALSE, signal_handlers |-> <<>>,
     signal_work |-> <<>>, signal_fd |-> -1, signal_con |-> 0,
     installed |-> {}, atfork |-> FALSE, rd |-> -1, pipe |-> <<>>, in |-> <<>>,
     finishing |-> FALSE, child |-> FALSE, blocked |-> 0]

Init ==
    /\ cons = <<>>
    /\ connections = <<>>
    /\ listen_conns = <<>>
    /\ complete_conns = <<>>
    /\ fdtab = [f \in FDs |-> ClosedFd]
    /\ pctl = [f \in FDs |-> PCTL_TYPE_NONE]
    /\ workers = [k \in Workers |-> Idle]
    /\ watch = "run"
    /\ shutdown_requested = FALSE
    /\ fatal = FALSE
    /\ calls = <<>>
    /\ last = NoLast
    /\ sig = NoBridge
    /\ job = NoJob

\* The watch thread (sections 4.1, 4.3): the steps of the loop itself leave
\* it running or blocked in poll(); while it is blocked, interrupt() makes
\* poll() return, and a signal on watch_sleep alone does not.
WatchOps == {"con_set_polling", "poll_read", "poll_write", "poll_connected",
             "con_close_on_poll_error", "poll_timeout", "finalize"}

watch_after(w, op) ==
    IF op = "poll" THEN "poll"
    ELSE IF op \in WatchOps THEN "run"
    ELSE IF \E i \in DOMAIN w.calls : w.calls[i].op = "interrupt" THEN "run"
    ELSE watch

\* commit the world an operation produced
Record(w, op, c, rc, type, fd) ==
    /\ cons' = w.cons
    /\ connections' = w.connections
    /\ listen_conns' = w.listen_conns
    /\ complete_conns' = w.complete_conns
    /\ watch' = watch_after(w, op)
    /\ fdtab' = w.fdtab
    /\ pctl' = w.pctl
    /\ fatal' = w.fatal
    /\ calls' = w.calls
    /\ last' = [op |-> op, con |-> c, rc |-> rc, type |-> type, fd |-> fd]

Commit(w, op, c, rc, type, fd) ==
    Record(w, op, c, rc, type, fd) /\ UNCHANGED <<sig, job>>

\* ------------------------------------------------------------- the caller
\* The descriptors a caller of conmgr_process_fd hands over: it has just
\* opened them (lowest free numbers), "none" stands for -1 and "bad" for a
\* number that is not open.  A caller whose request is refused closes them.
FdShapes ==
    {[in |-> "sock", out |-> "sock", same |-> TRUE],
     [in |-> "file", out |-> "file", same |-> TRUE],
     [in |-> "pipe", out |-> "pipe", same |-> FALSE],
     [in |-> "file", out |-> "pipe", same |-> FALSE],
     [in |-> "pipe", out |-> "file", same |-> FALSE],
     [in |-> "pipe", out |-> "none", same |-> FALSE],
     [in |-> "none", out |-> "pipe", same |-> FALSE],
     [in |-> "none", out |-> "none", same |-> TRUE],
     [in |-> "bad", out |-> "none", same |-> FALSE]}

\* the shapes a test of fd passing needs: a socket and a pipe pair
PassShapes == {sh \in FdShapes : sh.in = sh.out /\ sh.in \in {"sock", "pipe"}}

\* what the callers of conmgr_process_fd and of the listen calls supply
CallerSpec ==
    [type |-> CON_TYPE_RAW, events |-> {"on_data", "on_msg"}, arg |-> "argA"]

ShapeIn(tab, shape) ==
    IF shape.in = "none" THEN -1 ELSE LowestFree(tab)

ShapeTab1(tab, shape) ==
    IF shape.in \in FdKinds
    THEN [tab EXCEPT ![ShapeIn(tab, shape)] = OpenFd(shape.in)] ELSE tab

ShapeOut(tab, shape) ==
    IF shape.out = "none" THEN -1
    ELSE IF shape.same THEN ShapeIn(tab, shape)
    ELSE LowestFree(ShapeTab1(tab, shape))

\* the descriptor table after the caller opened the fds of a shape
ShapeTab(tab, shape) ==
    IF shape.out \in FdKinds /\ ~shape.same
    THEN [ShapeTab1(tab, shape) EXCEPT ![ShapeOut(tab, shape)] = OpenFd(shape.out)]
    ELSE ShapeTab1(tab, shape)

ProcessFd(spec, shape, fstat_ok) ==
    /\ ~fatal
    /\ Len(cons) < MaxCons
    /\ shape.in # "none" => ShapeIn(fdtab, shape) >= 0
    /\ shape.out # "none" => ShapeOut(fdtab, shape) >= 0
    /\ LET done(x) ==
               Commit(IF x.rc = SLURM_SUCCESS THEN x ELSE World,
                      "conmgr_process_fd",
                      IF x.rc = SLURM_SUCCESS THEN Len(x.cons) ELSE 0,
                      x.rc, "", -1)
       IN  done(conmgr_process_fd([World EXCEPT !.fdtab = ShapeTab(fdtab, shape)],
                                  spec.type, ShapeIn(fdtab, shape),
                                  ShapeOut(fdtab, shape), spec.events, NoAddr,
                                  spec.arg, fstat_ok))
    /\ UNCHANGED <<workers, shutdown_requested>>

\* limit: how many connection objects the run may allocate
CreateListenSocket(spec, listen_on, fstat_ok, limit) ==
    /\ ~fatal
    /\ Len(cons) + Len(xgetaddrinfo(listen_on)) <= limit
    /\ Len(cons) < limit
    /\ LET done(x) ==
               Commit(x, "conmgr_create_listen_socket", 0, x.rc, listen_on, -1)
       IN  done(conmgr_create_listen_socket(World, spec.type, listen_on,
                                            spec.events, spec.arg, fstat_ok))
    /\ UNCHANGED <<workers, shutdown_requested>>

QueueReceiveFd(c, spec) ==
    /\ ~fatal
    /\ Len(cons[c].work) < MaxWork
    /\ LET done(x) == Commit(x, "conmgr_queue_receive_fd", c, x.rc, "", -1)
       IN  done(conmgr_queue_receive_fd(World, c, spec))
    /\ UNCHANGED <<workers, shutdown_requested>>

\* the fd to send is one the caller has just opened, or -1; a caller whose
\* request is refused closes it
QueueSendFd(c, valid) ==
    /\ ~fatal
    /\ Len(cons[c].work) < MaxWork
    /\ valid => LowestFree(fdtab) >= 0
    /\ LET fd == IF valid THEN LowestFree(fdtab) ELSE -1
           done(x) ==
               Commit(IF x.rc = SLURM_SUCCESS THEN x
                      ELSE [x EXCEPT !.fdtab = fdtab],
                      "conmgr_queue_send_fd", c, x.rc, "", fd)
       IN  done(conmgr_queue_send_fd(
                    IF valid THEN [World EXCEPT !.fdtab[fd] = OpenFd("file")]
                    ELSE World, c, fd))
    /\ UNCHANGED <<workers, shutdown_requested>>

QueueCloseFd(c) ==
    /\ ~fatal
    /\ Len(cons[c].work) < MaxWork
    /\ Commit(conmgr_queue_close_fd(World, c), "conmgr_queue_close_fd", c,
              SLURM_SUCCESS, "", -1)
    /\ UNCHANGED <<workers, shutdown_requested>>

\* a caller or a callback switches the connection between RAW and RPC
ChangeMode(c, type) ==
    /\ ~fatal
    /\ ~cons[c].is_listen
    /\ _check_con_type(cons[c], type)
    /\ LET done(x) == Commit(x, "conmgr_fd_change_mode", c, x.rc, type, -1)
       IN  done(conmgr_fd_change_mode(World, c, type))
    /\ UNCHANGED <<workers, shutdown_requested>>

\* limit: how many connection objects the run may allocate
CreateConnectSocket(spec, addr, errs, fstat_ok, limit) ==
    /\ ~fatal
    /\ Len(cons) < limit
    /\ LET done(x) ==
               Commit(x, "conmgr_create_connect_socket",
                      IF Len(x.cons) > Len(cons) THEN Len(x.cons) ELSE 0,
                      x.rc, addr.family, LowestFree(fdtab))
       IN  done(conmgr_create_connect_socket(World, spec.type, addr, spec.events,
                                             spec.arg, errs, shutdown_requested,
                                             fstat_ok))
    /\ UNCHANGED <<workers, shutdown_requested>>

\* conmgr_queue_write_fd is not part of the tree: a callback queues a buffer
\* on the connection's out queue (section 3, out_queue)
QueueWrite(c) ==
    /\ ~fatal
    /\ ~cons[c].is_listen
    /\ cons[c].output_fd >= 0
    /\ Len(cons[c].out) < MaxOut
    /\ Commit([World EXCEPT !.cons[c].out = Append(@, "buf")],
              "conmgr_queue_write_fd", c, SLURM_SUCCESS, "", -1)
    /\ UNCHANGED <<workers, shutdown_requested>>

\* ------------------------------------------------------------ watch loop
\* steps 1 and 2 of section 4.3 for one connection
HandleConnection(c) ==
    /\ ~fatal
    /\ watch = "run"
    /\ con_set_polling_asserts(cons[c], watch_polling_kind(cons[c]))
    /\ LET done(x) ==
               /\ x.calls # <<>>
               /\ Commit(x, "con_set_polling", c, SLURM_SUCCESS,
                         watch_polling_kind(cons[c]), -1)
       IN  done(con_set_polling(World, c, watch_polling_kind(cons[c])))
    /\ UNCHANGED <<workers, shutdown_requested>>

\* step 4 of section 4.3: the poller reports the input fd readable
PollRead(c) ==
    /\ ~fatal
    /\ watch = "poll"
    /\ cons[c].input_fd >= 0
    /\ pctl[cons[c].input_fd] \in {PCTL_TYPE_READ_ONLY, PCTL_TYPE_READ_WRITE}
    /\ cons[c].in_off < MaxIn
    /\ Commit([Call(World, "read", cons[c].input_fd, "", c)
                  EXCEPT !.cons[c].can_read = TRUE, !.cons[c].in_off = @ + 1],
              "poll_read", c, SLURM_SUCCESS, "", cons[c].input_fd)
    /\ UNCHANGED <<workers, shutdown_requested>>

\* step 4 of section 4.3: the output fd is writable, one buffer is written
PollWrite(c) ==
    /\ ~fatal
    /\ watch = "poll"
    /\ cons[c].output_fd >= 0
    /\ pctl[cons[c].output_fd] \in {PCTL_TYPE_WRITE_ONLY, PCTL_TYPE_READ_WRITE}
    /\ cons[c].out # <<>>
    /\ Commit([Call(World, "write", cons[c].output_fd, "", c)
                  EXCEPT !.cons[c].out = Tail(@)],
              "poll_write", c, SLURM_SUCCESS, "", cons[c].output_fd)
    /\ UNCHANGED <<workers, shutdown_requested>>

\* step 4 of section 4.3: a pending connect completed; the on_connection
\* callback of the connection is queued, once (section 3, lifecycle)
PollConnected(c) ==
    /\ ~fatal
    /\ watch = "poll"
    /\ ~cons[c].is_connected
    /\ \E f \in {cons[c].input_fd, cons[c].output_fd} \cap FDs :
           pctl[f] = PCTL_TYPE_CONNECTED
    /\ Commit(add_work_con_fifo([World EXCEPT !.cons[c].is_connected = TRUE],
                                c, "wrap_on_connection"),
              "poll_connected", c, SLURM_SUCCESS, "", -1)
    /\ UNCHANGED <<workers, shutdown_requested>>

\* step 4 of section 4.3: the poller reports an error on a polled fd
PollError(c, fd) ==
    /\ ~fatal
    /\ watch = "poll"
    /\ fd \in {cons[c].input_fd, cons[c].output_fd}
    /\ pctl[fd] # PCTL_TYPE_NONE
    /\ Commit(con_close_on_poll_error(World, c, fd), "con_close_on_poll_error",
              c, SLURM_SUCCESS, "", fd)
    /\ UNCHANGED <<workers, shutdown_requested>>

\* step 3 of section 4.3: the loop releases the mutex and blocks in poll()
WatchPoll ==
    /\ ~fatal
    /\ watch = "run"
    /\ Commit(Call(mutex_unlock(World), "poll", -1, "", 0), "poll", 0,
              SLURM_SUCCESS, "", -1)
    /\ UNCHANGED <<workers, shutdown_requested>>

\* poll(timeout) returns with nothing ready
PollTimeout ==
    /\ ~fatal
    /\ watch = "poll"
    /\ Commit(mutex_lock(World), "poll_timeout", 0, SLURM_SUCCESS, "", -1)
    /\ UNCHANGED <<workers, shutdown_requested>>

\* step 1 of section 4.3, third case: close-finalization
Finalize(c) ==
    /\ ~fatal
    /\ watch = "run"
    /\ may_finalize(cons[c])
    /\ Commit(finalize(World, c), "finalize", c, SLURM_SUCCESS, "", -1)
    /\ UNCHANGED <<workers, shutdown_requested>>

\* shutdown (section 5): set the flag, interrupt the poller and close every
\* connection
RequestShutdown ==
    /\ ~fatal
    /\ ~shutdown_requested
    /\ shutdown_requested' = TRUE
    /\ Commit(close_all_connections(pollctl_interrupt(World)),
              "close_all_connections", 0, SLURM_SUCCESS, "", -1)
    /\ UNCHANGED workers

\* ----------------------------------------------------------- worker pool
\* The pool is not part of the tree; section 4.4: a worker takes a
\* connection whose work queue is non-empty and whose work_active is false,
\* sets work_active, pops one callback, runs it, clears work_active and
\* signals watch_sleep.
\* a pool that hands out a connection another worker still holds
worker_may_take_busy(con) == con.work # <<>>

worker_may_take(con) == con.work # <<>> /\ ~con.work_active

WorkerTake(k, c) ==
    /\ ~fatal
    /\ workers[k] = Idle
    /\ \A j \in Workers : j < k => workers[j] # Idle
    /\ worker_may_take(cons[c])
    /\ workers' = [workers EXCEPT ![k] = [con |-> c, work |-> Head(cons[c].work)]]
    /\ Commit([World EXCEPT !.cons[c].work_active = TRUE,
                            !.cons[c].work = Tail(@)],
              "worker_take", c, SLURM_SUCCESS, Head(cons[c].work).func, -1)
    /\ UNCHANGED shutdown_requested

\* the callback of the work item, run with the status the pool delivers
RunCallback(w, c, work, status, recv_kind, fstat_ok, arg) ==
    CASE work.func = "_receive_fd" ->
            _receive_fd(w, c, status, work.spec, recv_kind, fstat_ok)
      [] work.func = "wrap_on_connection" -> wrap_on_connection(w, c, arg)
      [] work.func = "_send_fd" -> _send_fd(w, c, status, work.fd)
      [] work.func = "_deferred_close_fd" -> _deferred_close_fd(w, c)

\* the worker clears work_active once the callback has returned
worker_release(w, c) ==
    mutex_unlock(EVENT_SIGNAL([mutex_lock(w) EXCEPT !.cons[c].work_active = FALSE]))

\* the status the pool delivers to a callback
work_status ==
    IF shutdown_requested THEN CONMGR_WORK_STATUS_CANCELLED
    ELSE CONMGR_WORK_STATUS_RUN

\* limit: how many connection objects the run may allocate; arg: what an
\* on_connection callback returns
WorkerRun(k, recv_kind, fstat_ok, arg, limit) ==
    /\ ~fatal
    /\ workers[k] # Idle
    /\ IF workers[k].work.func = "_receive_fd"
       THEN recv_kind # "none" => Len(cons) < limit
       ELSE recv_kind = "none" /\ fstat_ok
    /\ recv_kind = "none" => fstat_ok
    /\ workers[k].work.func # "wrap_on_connection" => arg = "ctx"
    /\ LET done(x) ==
               Commit(x, workers[k].work.func, workers[k].con, x.rc, work_status,
                      workers[k].work.fd)
       IN  done(worker_release(RunCallback(World, workers[k].con, workers[k].work,
                                           work_status, recv_kind, fstat_ok, arg),
                               workers[k].con))
    /\ workers' = [workers EXCEPT ![k] = Idle]
    /\ UNCHANGED shutdown_requested

\* ------------------------------------------------------- specifications
ProcessFdAny ==
    \E shape \in FdShapes, ok \in BOOLEAN : ProcessFd(CallerSpec, shape, ok)

CreateListenSocketAny ==
    \E l \in {"unix:/x", "h4:1"}, ok \in BOOLEAN :
        CreateListenSocket(CallerSpec, l, ok, MaxCons)

QueueWriteAny == \E c \in Live : QueueWrite(c)

HandleConnectionAny == \E c \in Live : HandleConnection(c)

PollReadAny == \E c \in Live : PollRead(c)

PollWriteAny == \E c \in Live : PollWrite(c)

PollConnectedAny == \E c \in Live : PollConnected(c)

PollErrorAny == \E c \in Live, fd \in FDs : PollError(c, fd)

QueueReceiveFdAny == \E c \in Live, spec \in ConSpecs : QueueReceiveFd(c, spec)

QueueSendFdAny == \E c \in Live, valid \in BOOLEAN : QueueSendFd(c, valid)

QueueCloseFdAny == \E c \in Live : QueueCloseFd(c)

WorkerTakeAny == \E k \in Workers, c \in Live : WorkerTake(k, c)

WorkerRunAny ==
    \E k \in Workers, rk \in FdKinds \cup {"none"}, ok \in BOOLEAN :
        \E arg \in {NULL, "ctx"} : WorkerRun(k, rk, ok, arg, MaxCons)

ChangeModeAny ==
    \E c \in Live, type \in {CON_TYPE_RAW, CON_TYPE_RPC} : ChangeMode(c, type)

CreateConnectSocketAny ==
    \E addr \in DialAddrs, errs \in ConnectRuns, ok \in BOOLEAN :
        CreateConnectSocket(CallerSpec, addr, errs, ok, MaxCons)

FinalizeAny == \E c \in Live : Finalize(c)

\* one connection at a time, with everything that can happen to it
Next ==
    \/ ProcessFdAny
    \/ CreateListenSocketAny
    \/ QueueWriteAny
    \/ HandleConnectionAny
    \/ PollReadAny
    \/ PollWriteAny
    \/ PollConnectedAny
    \/ PollErrorAny
    \/ QueueReceiveFdAny
    \/ QueueSendFdAny
    \/ QueueCloseFdAny
    \/ WorkerTakeAny
    \/ WorkerRunAny
    \/ WatchPoll
    \/ PollTimeout
    \/ FinalizeAny
    \/ RequestShutdown

Spec == Init /\ [][Next]_vars

\* listeners only
ListenAny ==
    \E l \in ListenOn, ok \in BOOLEAN :
        CreateListenSocket(CallerSpec, l, ok, MaxListen)

NextListen ==
    \/ ListenAny
    \/ HandleConnectionAny
    \/ PollErrorAny
    \/ WatchPoll
    \/ PollTimeout
    \/ FinalizeAny
    \/ RequestShutdown

SpecListen == Init /\ [][NextListen]_vars

\* dialled connections: connect, on_connection, mode changes, close
ProcessFdDial ==
    \E shape \in PassShapes : ProcessFd(CallerSpec, shape, TRUE)

WorkerRunDial ==
    \E k \in Workers, arg \in {NULL, "ctx"} :
        WorkerRun(k, "none", TRUE, arg, MaxCons)

NextDial ==
    \/ CreateConnectSocketAny
    \/ ProcessFdDial
    \/ ChangeModeAny
    \/ QueueWriteAny
    \/ QueueCloseFdAny
    \/ HandleConnectionAny
    \/ PollReadAny
    \/ PollWriteAny
    \/ PollConnectedAny
    \/ PollErrorAny
    \/ WatchPoll
    \/ PollTimeout
    \/ FinalizeAny
    \/ WorkerTakeAny
    \/ WorkerRunDial
    \/ RequestShutdown

SpecDial == Init /\ [][NextDial]_vars

\* fd passing: sources and the connections made of the fds they receive
ProcessFdPass ==
    \E shape \in PassShapes, ok \in BOOLEAN : ProcessFd(CallerSpec, shape, ok)

WorkerRunPass ==
    \E k \in Workers, rk \in FdKinds \cup {"none"}, ok \in BOOLEAN :
        WorkerRun(k, rk, ok, "ctx", MaxCons + MaxRecv)

NextPass ==
    \/ ProcessFdPass
    \/ QueueReceiveFdAny
    \/ QueueCloseFdAny
    \/ WorkerTakeAny
    \/ WorkerRunPass
    \/ RequestShutdown

SpecPass == Init /\ [][NextPass]_vars

\* Close requests beside other work, with a pool that runs queued work
\* fairly: a connection whose work can be taken again and again is taken,
\* and a worker that holds work runs it.  No descriptor is received here.
NextClose ==
    \/ ProcessFdPass
    \/ QueueReceiveFdAny
    \/ QueueCloseFdAny
    \/ WorkerTakeAny
    \/ \E k \in Workers : WorkerRun(k, "none", TRUE, "ctx", MaxCons)
    \/ RequestShutdown

SpecClose ==
    /\ Init /\ [][NextClose]_vars
    /\ \A c \in ConIds :
           SF_vars(c \in Live /\ \E k \in Workers : WorkerTake(k, c))
    /\ \A k \in Workers : WF_vars(WorkerRun(k, "none", TRUE, "ctx", MaxCons))

\* ------------------------------------------------- gres_select_util.c
\* The three functions below work on a job's GRES list.  A List or a
\* gres_data pointer that is NULL is the record [null |-> TRUE].  The
\* arguments are kept small enough for every uint64_t value to stay below
\* 2^31, so that uint64_t arithmetic never wraps; the conversions to
\* uint16_t and to int are made as C makes them.
NullPtr == [null |-> TRUE]

\* gres_build_id() (gres.c) sums the bytes of the name, each shifted by 8
\* bits more than the one before
gres_build_id(name) ==
    CASE name = "gpu" -> 103 + 112 * 256 + 117 * W16
      [] name = "mps" -> 109 + 112 * 256 + 115 * W16

\* gres_state_t records, with their gres_job_state_t
GresRecords ==
    LET d(cpus, def_cpus, mem, job_, node, socket, task) ==
            [null |-> FALSE, cpus_per_gres |-> cpus, def_cpus_per_gres |-> def_cpus,
             mem_per_gres |-> mem, def_mem_per_gres |-> 0,
             gres_per_job |-> job_, gres_per_node |-> node,
             gres_per_socket |-> socket, gres_per_task |-> task]
        g(plugin, data) == [plugin_id |-> gres_build_id(plugin), gres_data |-> data]
    IN  {g("gpu", d(W16 - 1, 0, 0, 32772, 0, 0, 0)),
         g("gpu", d(0, 3, 0, 0, 2, 0, 0)),
         g("gpu", d(2, 0, 1, 0, 0, 1, 0)),
         g("gpu", d(2, 0, 0, 0, 0, 0, 256)),
         g("gpu", d(0, 0, 1, 0, 0, 0, 3)),
         g("gpu", d(4, 0, 0, 0, 0, 0, 0)),
         g("gpu", d(0, 0, 0, 1, 7, 0, 0)),
         g("mps", d(1, 0, 0, 5, 0, 0, 2)),
         g("gpu", NullPtr)}

\* job GRES lists of up to MaxGres records, and the NULL list
GresLists ==
    {NullPtr} \cup
    {[null |-> FALSE, items |-> l] :
        l \in UNION {[1..n -> GresRecords] : n \in 0..MaxGres}}

\* the product of two values below 2^16 as uint64_t arithmetic gives it,
\* in two 16-bit limbs
umul(a, b) ==
    LET p1 == (a \div 256) * b
        p2 == (a % 256) * b
        lo == ((p1 % 256) * 256) + (p2 % W16)
    IN  [hi |-> (p1 \div 256) + (p2 \div W16) + (lo \div W16), lo |-> lo % W16]

\* the conversion of a uint64_t below 2^32 to int: the low 32 bits, as a
\* two's complement number
to_int(p) ==
    IF p.hi >= W16 \div 2 THEN (p.hi - W16) * W16 + p.lo
    ELSE p.hi * W16 + p.lo

gres_select_util_job_set_defs(job_gres_list, gres_name, cpu_per_gpu, mem_per_gpu, cpus_per_tres, mem_per_tres, cpus_per_task) ==
    LET plugin_id == gres_build_id(gres_name)
        start == [job_gres_list |-> job_gres_list,
                  cpus_per_tres |-> cpus_per_tres,
                  mem_per_tres |-> mem_per_tres,
                  cpus_per_task |-> cpus_per_task]
        MAX(a, b) == IF a > b THEN a ELSE b
        \* xstrfmtcat(str, "gpu:%"PRIu64, n) on a string that was freed
        gpu_count_string(n) == <<"gpu:", n>>
        one(st, i) ==
            LET gres_ptr == st.job_gres_list.items[i]
                job_gres_data == gres_ptr.gres_data
            IN  IF gres_ptr.plugin_id # plugin_id THEN st
                ELSE IF job_gres_data.null THEN st
                ELSE [job_gres_list |->
                          [st.job_gres_list EXCEPT
                               !.items[i].gres_data.def_cpus_per_gres = cpu_per_gpu,
                               !.items[i].gres_data.def_mem_per_gres = mem_per_gpu],
                      cpus_per_tres |->
                          IF job_gres_data.cpus_per_gres # 0 THEN st.cpus_per_tres
                          ELSE IF cpu_per_gpu # 0 THEN gpu_count_string(cpu_per_gpu)
                          ELSE <<>>,
                      mem_per_tres |->
                          IF job_gres_data.mem_per_gres # 0 THEN st.mem_per_tres
                          ELSE IF mem_per_gpu # 0 THEN gpu_count_string(mem_per_gpu)
                          ELSE <<>>,
                      cpus_per_task |->
                          IF cpu_per_gpu # 0 /\ job_gres_data.gres_per_task # 0
                          THEN MAX(st.cpus_per_task,
                                   job_gres_data.gres_per_task * cpu_per_gpu) % W16
                          ELSE st.cpus_per_task]
        loop[i \in 0..MaxGres + 1] == IF i = 0 THEN start ELSE one(loop[i - 1], i)
    IN  IF job_gres_list.null THEN start
        ELSE loop[Len(job_gres_list.items)]

gres_select_util_job_min_tasks(node_count, sockets_per_node, ntasks_per_tres, gres_name, job_gres_list) ==
    LET plugin_id == IF gres_name # NULL /\ gres_name # ""
                     THEN gres_build_id(gres_name) ELSE 0
        MAX(a, b) == IF a > b THEN a ELSE b
        one(min_tasks, gres_ptr) ==
            LET gres_data == gres_ptr.gres_data
                total_gres ==
                    IF gres_data.gres_per_job # 0 THEN gres_data.gres_per_job
                    ELSE IF gres_data.gres_per_node # 0
                    THEN gres_data.gres_per_node * node_count
                    ELSE IF gres_data.gres_per_socket # 0
                    THEN gres_data.gres_per_socket * node_count * sockets_per_node
                    ELSE 0
            IN  IF plugin_id # 0 /\ plugin_id # gres_ptr.plugin_id THEN min_tasks
                ELSE IF /\ gres_data.gres_per_job = 0
                        /\ gres_data.gres_per_node = 0
                        /\ gres_data.gres_per_socket = 0
                        /\ gres_data.gres_per_task = 0
                THEN min_tasks
                ELSE MAX(min_tasks, to_int(umul(ntasks_per_tres, total_gres)))
        loop[i \in 0..MaxGres + 1] ==
            IF i = 0 THEN 0 ELSE one(loop[i - 1], job_gres_list.items[i])
    IN  IF ntasks_per_tres = 0 \/ ntasks_per_tres = NO_VAL16 THEN 0
        ELSE IF job_gres_list.null THEN 0
        ELSE loop[Len(job_gres_list.items)]

gres_select_util_job_min_cpus(node_count, sockets_per_node, task_count, job_gres_list) ==
    LET MAX(a, b) == IF a > b THEN a ELSE b
        one(min_cpus, job_gres_ptr) ==
            LET job_data_ptr == job_gres_ptr.gres_data
                cpus_per_gres ==
                    IF job_data_ptr.cpus_per_gres # 0
                    THEN job_data_ptr.cpus_per_gres % W16
                    ELSE job_data_ptr.def_cpus_per_gres % W16
                total_gres ==
                    IF job_data_ptr.gres_per_job # 0 THEN job_data_ptr.gres_per_job
                    ELSE IF job_data_ptr.gres_per_node # 0
                    THEN job_data_ptr.gres_per_node * node_count
                    ELSE IF job_data_ptr.gres_per_socket # 0
                    THEN job_data_ptr.gres_per_socket * node_count * sockets_per_node
                    ELSE job_data_ptr.gres_per_task * task_count
            IN  IF cpus_per_gres = 0 THEN min_cpus
                ELSE IF /\ job_data_ptr.gres_per_job = 0
                        /\ job_data_ptr.gres_per_node = 0
                        /\ job_data_ptr.gres_per_socket = 0
                        /\ job_data_ptr.gres_per_task = 0
                THEN min_cpus
                ELSE MAX(min_cpus, to_int(umul(cpus_per_gres, total_gres)))
        loop[i \in 0..MaxGres + 1] ==
            IF i = 0 THEN 0 ELSE one(loop[i - 1], job_gres_list.items[i])
    IN  IF job_gres_list.null THEN 0
        ELSE loop[Len(job_gres_list.items)]

\* the callers: the select plugin calls each function with a job's list;
\* the lists handed to the two min functions hold no NULL gres_data, which
\* they dereference unchecked
DataLists ==
    {l \in GresLists :
        ~l.null /\ \A i \in DOMAIN l.items : ~l.items[i].gres_data.null}

JobSetDefs ==
    /\ ~fatal
    /\ job = NoJob
    /\ \E l \in GresLists, cpu_per_gpu \in {0, 2, 256}, mem_per_gpu \in {0, 4} :
       \E tres \in {<<>>, <<"gpu:", 1>>}, cpus_per_task \in {1, 4, W16 - 1} :
           job' = [fn |-> "gres_select_util_job_set_defs",
                   job_gres_list |-> l,
                   cpu_per_gpu |-> cpu_per_gpu,
                   mem_per_gpu |-> mem_per_gpu,
                   cpus_per_task |-> cpus_per_task,
                   out |-> gres_select_util_job_set_defs(
                               l, "gpu", cpu_per_gpu, mem_per_gpu, tres, tres,
                               cpus_per_task)]
    /\ UNCHANGED <<cons, connections, listen_conns, complete_conns, fdtab, pctl,
                   workers, watch, shutdown_requested, fatal, calls, last, sig>>

JobMinTasks ==
    /\ ~fatal
    /\ job = NoJob
    /\ \E l \in DataLists \cup {NullPtr}, node_count \in {1, 2} :
       \E sockets_per_node \in {1, 2}, gres_name \in {NULL, "", "gpu"} :
       \E ntasks_per_tres \in {0, 1, 2, W16 - 3, NO_VAL16} :
           job' = [fn |-> "gres_select_util_job_min_tasks",
                   job_gres_list |-> l,
                   node_count |-> node_count,
                   sockets_per_node |-> sockets_per_node,
                   ntasks_per_tres |-> ntasks_per_tres,
                   gres_name |-> gres_name,
                   ret |-> gres_select_util_job_min_tasks(
                               node_count, sockets_per_node, ntasks_per_tres,
                               gres_name, l)]
    /\ UNCHANGED <<cons, connections, listen_conns, complete_conns, fdtab, pctl,
                   workers, watch, shutdown_requested, fatal, calls, last, sig>>

JobMinCpus ==
    /\ ~fatal
    /\ job = NoJob
    /\ \E l \in DataLists \cup {NullPtr}, node_count \in {1, 2} :
       \E sockets_per_node \in {1, 2}, task_count \in {1, 3} :
           job' = [fn |-> "gres_select_util_job_min_cpus",
                   job_gres_list |-> l,
                   node_count |-> node_count,
                   sockets_per_node |-> sockets_per_node,
                   task_count |-> task_count,
                   ret |-> gres_select_util_job_min_cpus(
                               node_count, sockets_per_node, task_count, l)]
    /\ UNCHANGED <<cons, connections, listen_conns, complete_conns, fdtab, pctl,
                   workers, watch, shutdown_requested, fatal, calls, last, sig>>

NextGres ==
    \/ JobSetDefs
    \/ JobMinTasks
    \/ JobMinCpus

SpecGres == Init /\ [][NextGres]_vars

\* ------------------------------------------------------------- signal.c
\* the signals a caller registers work for: SIGINT and SIGTERM
Signals == {2, 15}

\* The functions below work on the world and the bridge together.
Bridge == [w |-> World, s |-> sig]

\* slurm_rwlock_rdlock, slurm_rwlock_wrlock and slurm_rwlock_unlock on lock
slurm_rwlock(b, op) ==
    [b EXCEPT !.w = Call(@, op, -1, "", 0),
              !.s.lock = CASE op = "rwlock_rdlock" -> "rdlock"
                           [] op = "rwlock_wrlock" -> "wrlock"
                           [] op = "rwlock_unlock" -> "unlocked"]

\* _signal_handler that takes EPIPE for an error it cannot handle
_signal_handler_aborts(b, signo, errs) ==
    LET fd == b.s.signal_fd
        last_errno == IF ~b.w.fdtab[fd].open THEN "EBADF"
                      ELSE IF b.w.fdtab[fd].kind # "pipe" THEN "0"
                      ELSE IF b.w.fdtab[b.s.rd].kind # "pipe" THEN "EPIPE"
                      ELSE "0"
        results == errs \o <<last_errno>>
        write(x, i) == [x EXCEPT !.w = Call(@, "write", fd, results[i], signo)]
        written(x) == IF b.w.fdtab[fd].kind # "pipe" THEN x
                      ELSE [x EXCEPT !.s.pipe = @ \o <<signo, 0, 0, 0>>]
        try[i \in 0..Len(results)] ==
            IF i = 0 THEN b
            ELSE IF results[i] = "0" THEN written(write(try[i - 1], i))
            ELSE IF results[i] = "EBADF" THEN write(try[i - 1], i)
            ELSE IF results[i] \in {"EAGAIN", "EWOULDBLOCK", "EINTR"}
            THEN write(try[i - 1], i)
            ELSE [write(try[i - 1], i) EXCEPT !.w.fatal = TRUE]
    IN  IF fd < 0 THEN b ELSE try[Len(results)]

\* errs: the errors of the writes that fail before the one that decides.
\* That one fails with EBADF when the number in signal_fd is not open and
\* with EPIPE when the read end of the pipe is closed; when the number was
\* closed and given to a file another thread opened, the write goes to that
\* file.  A signal number is written as the sizeof(int) bytes of a
\* little-endian int.  A write to a full pipe does not return while the
\* pipe stays full: it waits if the descriptor is blocking, and fails with
\* EAGAIN, which is tried again, if it is not.
_signal_handler(b, signo, errs) ==
    LET fd == b.s.signal_fd
        full == Len(b.s.pipe) >= MaxPipe * sizeof_signo
        last_errno == IF ~b.w.fdtab[fd].open THEN "EBADF"
                      ELSE IF b.w.fdtab[fd].kind # "pipe" THEN "0"
                      ELSE IF b.w.fdtab[b.s.rd].kind # "pipe" THEN "EPIPE"
                      ELSE IF full /\ b.w.fdtab[fd].nonblock THEN "EAGAIN"
                      ELSE IF full THEN "blocks"
                      ELSE "0"
        results == errs \o <<last_errno>>
        write(x, i) == [x EXCEPT !.w = Call(@, "write", fd, results[i], signo)]
        written(x) == IF b.w.fdtab[fd].kind # "pipe" THEN x
                      ELSE [x EXCEPT !.s.pipe = @ \o <<signo, 0, 0, 0>>]
        waits(x) == [x EXCEPT !.s.blocked = signo]
        try[i \in 0..Len(results)] ==
            IF i = 0 THEN b
            ELSE IF results[i] = "0" THEN written(write(try[i - 1], i))
            ELSE IF results[i] \in {"EPIPE", "EBADF"} THEN write(try[i - 1], i)
            ELSE IF i = Len(results) /\ results[i] \in {"blocks", "EAGAIN"}
            THEN waits(write(try[i - 1], i))
            ELSE IF results[i] \in {"EAGAIN", "EWOULDBLOCK", "EINTR"}
            THEN write(try[i - 1], i)
            ELSE [write(try[i - 1], i) EXCEPT !.w.fatal = TRUE]
    IN  IF fd < 0 THEN b ELSE try[Len(results)]

\* caller holds the write lock; sigaction() makes _signal_handler the
\* disposition of the signal
_register_signal_handler(b, signal) ==
    IF \E i \in DOMAIN b.s.signal_handlers : b.s.signal_handlers[i] = signal
    THEN b
    ELSE [b EXCEPT !.w = Call(@, "sigaction", signal, "", 0),
                   !.s.signal_handlers = Append(@, signal),
                   !.s.installed = @ \cup {signal}]

\* _on_signal that stops at the first signal work that matches
_on_signal_first_match(b, signal) ==
    LET matches == {i \in DOMAIN b.s.signal_work :
                       b.s.signal_work[i].on_signal_number = signal}
        first == CHOOSE i \in matches : \A j \in matches : i <= j
        add(x) == [x EXCEPT !.w = Call(@, "add_work", signal,
                                       b.s.signal_work[first].callback, 0)]
        warn(x) == [x EXCEPT !.w = Call(@, "warning", signal, "", 0)]
    IN  IF matches = {}
        THEN warn(slurm_rwlock(slurm_rwlock(b, "rwlock_rdlock"), "rwlock_unlock"))
        ELSE slurm_rwlock(add(slurm_rwlock(b, "rwlock_rdlock")), "rwlock_unlock")

\* mgr.mutex is held by the caller; add_work(true, NULL, ...) queues an
\* unattached work item
_on_signal(b, signal) ==
    LET work == b.s.signal_work
        add(x, i) ==
            IF work[i].on_signal_number # signal THEN x
            ELSE [x EXCEPT !.w = Call(@, "add_work", signal, work[i].callback, 0)]
        loop[i \in 0..Len(work)] ==
            IF i = 0 THEN slurm_rwlock(b, "rwlock_rdlock")
            ELSE add(loop[i - 1], i)
        matched == \E i \in DOMAIN work : work[i].on_signal_number = signal
        warn(x) == IF matched THEN x
                   ELSE [x EXCEPT !.w = Call(@, "warning", signal, "", 0)]
    IN  warn(slurm_rwlock(loop[Len(work)], "rwlock_unlock"))

add_work_signal(b, work) ==
    LET append(x) == [x EXCEPT !.s.signal_work = Append(@, work)]
        register(x) == IF x.s.signal_con # 0
                       THEN _register_signal_handler(x, work.on_signal_number)
                       ELSE x
    IN  slurm_rwlock(register(append(slurm_rwlock(b, "rwlock_wrlock"))),
                     "rwlock_unlock")

\* with _init_signal_handler, which registers the handlers of the signal
\* work added so far unless a handler table exists
_on_connection(b, con) ==
    LET work == b.s.signal_work
        init[i \in 0..Len(work)] ==
            IF i = 0 THEN slurm_rwlock(b, "rwlock_wrlock")
            ELSE _register_signal_handler(init[i - 1], work[i].on_signal_number)
        _init_signal_handler ==
            IF b.s.signal_handlers # <<>> THEN slurm_rwlock(b, "rwlock_wrlock")
            ELSE init[Len(work)]
        set(x) == [x EXCEPT !.s.signal_con = con]
    IN  slurm_rwlock(set(_init_signal_handler), "rwlock_unlock")

\* the int at data + read
int_at(data, read) ==
    data[read + 1] + 256 * data[read + 2] + W16 * data[read + 3]
    + 256 * W16 * data[read + 4]

\* _on_data that takes the signal lock before mgr.mutex
_on_data_signal_lock_first(b) ==
    LET data == b.s.in
        bytes == Len(data)
        lock(x) == [x EXCEPT !.w = mutex_lock(Call(@, "rwlock_rdlock", -1, "", 0))]
        unlock(x) == [x EXCEPT !.w = Call(mutex_unlock(@), "rwlock_unlock", -1, "", 0)]
        add(x, signal, i) ==
            IF b.s.signal_work[i].on_signal_number # signal THEN x
            ELSE [x EXCEPT !.w = Call(@, "add_work", signal,
                                      b.s.signal_work[i].callback, 0)]
        each[k \in 0..bytes, i \in 0..Len(b.s.signal_work)] ==
            IF k = 0 THEN lock(b)
            ELSE IF i = 0 THEN each[k - 1, Len(b.s.signal_work)]
            ELSE add(each[k, i - 1], int_at(data, (k - 1) * sizeof_signo), i)
        consumed(x) ==
            [x EXCEPT !.s.in = SubSeq(data, (bytes \div sizeof_signo) * sizeof_signo + 1,
                                      bytes)]
    IN  consumed(unlock(each[bytes \div sizeof_signo, Len(b.s.signal_work)]))

\* _on_data that marks the whole buffer as consumed
_on_data_consumes_all(b) ==
    LET data == b.s.in
        bytes == Len(data)
        loop[k \in 0..bytes] ==
            IF k = 0 THEN [b EXCEPT !.w = mutex_lock(@)]
            ELSE _on_signal(loop[k - 1], int_at(data, (k - 1) * sizeof_signo))
        unlock(x) == [x EXCEPT !.w = mutex_unlock(@)]
        consumed(x) == [x EXCEPT !.s.in = <<>>]
    IN  consumed(unlock(loop[bytes \div sizeof_signo]))

\* the connection's input buffer is s.in; conmgr_fd_mark_consumed_in_buffer
\* drops the bytes that were read
_on_data(b) ==
    LET data == b.s.in
        bytes == Len(data)
        loop[k \in 0..bytes] ==
            IF k = 0 THEN [b EXCEPT !.w = mutex_lock(@)]
            ELSE _on_signal(loop[k - 1], int_at(data, (k - 1) * sizeof_signo))
        unlock(x) == [x EXCEPT !.w = mutex_unlock(@)]
        consumed(x) ==
            [x EXCEPT !.s.in = SubSeq(data, (bytes \div sizeof_signo) * sizeof_signo + 1,
                                      bytes)]
    IN  consumed(unlock(loop[bytes \div sizeof_signo]))

\* step "close": up to the close() of fd_close(&signal_fd); step "store":
\* from the store of -1 to signal_fd to the end
_on_finish(b, step) ==
    LET close(x) == [x EXCEPT !.w = sys_close(@, b.s.signal_fd, b.s.signal_con),
                              !.s.finishing = TRUE]
        store(x) == [x EXCEPT !.s.signal_fd = -1, !.s.signal_con = 0,
                              !.s.finishing = FALSE]
    IN  IF step = "close" THEN close(slurm_rwlock(b, "rwlock_wrlock"))
        ELSE slurm_rwlock(store(b), "rwlock_unlock")

_atfork_child(b) ==
    [b EXCEPT !.s.lock = "unlocked", !.s.one_time_init = FALSE,
              !.s.signal_handlers = <<>>, !.s.signal_work = <<>>,
              !.s.signal_fd = -1, !.s.signal_con = 0]

\* pipe() takes the two lowest free descriptors and fails when there are
\* not two; fd_set_blocking() clears O_NONBLOCK on the write end
signal_mgr_start(b, status, fstat_ok) ==
    LET fd0 == LowestFree(b.w.fdtab)
        tab0 == IF fd0 < 0 THEN b.w.fdtab
                ELSE [b.w.fdtab EXCEPT ![fd0] = OpenFd("pipe")]
        fd1 == LowestFree(tab0)
        pipe(x) == [x EXCEPT !.w = [Call(@, "pipe", fd0, "", 0) EXCEPT
                                        !.fdtab = [tab0 EXCEPT ![fd1] = OpenFd("pipe")]],
                             !.s.rd = fd0, !.s.pipe = <<>>, !.s.in = <<>>]
        once(x) == [x EXCEPT !.s.one_time_init = TRUE, !.s.atfork = TRUE]
        set(x) == [x EXCEPT !.w.fdtab[fd1].nonblock = FALSE, !.s.signal_fd = fd1]
        checked(w) == IF w.rc # SLURM_SUCCESS THEN [w EXCEPT !.fatal = TRUE] ELSE w
        add(x) == [x EXCEPT !.w = checked(add_connection(
                       @, CON_TYPE_RAW, 0, fd0, -1,
                       {"on_connection", "on_data", "on_finish"}, NoAddr, FALSE,
                       NULL, NULL, fstat_ok))]
    IN  IF status = CONMGR_WORK_STATUS_CANCELLED THEN b
        ELSE IF fd0 < 0 \/ fd1 < 0
        THEN [b EXCEPT !.w = [Call(@, "pipe", -1, "EMFILE", 0) EXCEPT !.fatal = TRUE]]
        ELSE add(slurm_rwlock(set(once(slurm_rwlock(pipe(b), "rwlock_wrlock"))),
                 "rwlock_unlock"))

\* close_con(true, ...): the caller holds mgr.mutex
signal_mgr_stop(b) ==
    LET close(x) == IF x.s.signal_con = 0 THEN x
                    ELSE [x EXCEPT !.w = close_con(@, TRUE, x.s.signal_con)]
    IN  slurm_rwlock(close(slurm_rwlock(b, "rwlock_rdlock")), "rwlock_unlock")

\* commit what a function of signal.c leaves
BridgeStep(b, op, signo) ==
    /\ Record(b.w, op, b.s.signal_con, b.w.rc, "", signo)
    /\ sig' = b.s
    /\ UNCHANGED <<workers, shutdown_requested, job>>

\* The callers.  conmgr runs signal_mgr_start as work, calls the events of
\* the connection (on_connection once, on_data after it has read from the
\* pipe, on_finish when the connection is ready for finalization) and calls
\* signal_mgr_stop with mgr.mutex held; the kernel runs _signal_handler for
\* a signal whose disposition it is, in any thread and at any time, and a
\* write to a full pipe blocks; fork() runs _atfork_child in the child if
\* it is registered, and the thread that was inside _on_finish is not part
\* of the child.
NextSignal ==
    \/ \E status \in {CONMGR_WORK_STATUS_RUN, CONMGR_WORK_STATUS_CANCELLED} :
       \E fstat_ok \in BOOLEAN :
           /\ ~fatal /\ sig.lock = "unlocked"
           /\ sig.signal_fd = -1 /\ sig.signal_con = 0
           /\ Len(cons) < MaxStart
           /\ LET done(b) ==
                      /\ Record(b.w, "signal_mgr_start", b.s.signal_con, b.w.rc,
                                status, 0)
                      /\ sig' = b.s
                      /\ UNCHANGED <<workers, shutdown_requested, job>>
              IN  done(signal_mgr_start(Bridge, status, fstat_ok))
    \/ \E signo \in Signals, callback \in {"f", "g"} :
           /\ ~fatal /\ sig.lock = "unlocked"
           /\ Len(sig.signal_work) < MaxSignalWork
           /\ BridgeStep(add_work_signal(Bridge, [on_signal_number |-> signo,
                                                  callback |-> callback]),
                         "add_work_signal", signo)
    \/ \E c \in Live :
           /\ ~fatal /\ sig.lock = "unlocked"
           /\ "on_finish" \in cons[c].events
           /\ cons[c].arg = NULL
           /\ LET called(b) == [b EXCEPT !.w = wrap_on_connection(@, c, "signal_fd")]
              IN  BridgeStep(called(_on_connection(Bridge, c)), "_on_connection", 0)
    \/ \E signo \in sig.installed :
       \E errs \in {<<>>, <<"EINTR">>, <<"EAGAIN", "EWOULDBLOCK">>} :
           /\ ~fatal
           /\ sig.signal_fd >= 0 /\ fdtab[sig.signal_fd].kind = "pipe"
                  /\ fdtab[sig.rd].kind = "pipe"
                  => Len(sig.pipe) < MaxPipe * sizeof_signo
           /\ BridgeStep(_signal_handler(Bridge, signo, errs), "_signal_handler",
                         signo)
    \/ \E n \in 1..Len(sig.pipe) :
           /\ ~fatal /\ sig.lock = "unlocked"
           /\ sig.signal_con # 0
           /\ cons[sig.signal_con].input_fd >= 0
           /\ LET read(b) ==
                      [b EXCEPT !.w = Call(@, "read", sig.rd, "", sig.signal_con),
                                !.s.in = @ \o SubSeq(sig.pipe, 1, n),
                                !.s.pipe = SubSeq(@, n + 1, Len(@))]
              IN  BridgeStep(_on_data(read(Bridge)), "_on_data", 0)
    \/ /\ ~fatal /\ sig.lock = "unlocked"
       /\ LET locked(b) == [b EXCEPT !.w = mutex_lock(@)]
              unlocked(b) == [b EXCEPT !.w = mutex_unlock(@)]
          IN  BridgeStep(unlocked(signal_mgr_stop(locked(Bridge))),
                         "signal_mgr_stop", 0)
    \/ /\ ~fatal /\ sig.lock = "unlocked"
       /\ sig.signal_con # 0
       /\ may_finalize(cons[sig.signal_con])
       /\ BridgeStep(_on_finish(Bridge, "close"), "_on_finish", 0)
    \/ /\ ~fatal /\ sig.finishing
       /\ LET finalized(b) == [b EXCEPT !.w = finalize(@, sig.signal_con)]
          IN  BridgeStep(_on_finish(finalized(Bridge), "store"), "_on_finish", 1)
    \/ /\ ~fatal /\ ~sig.child
       /\ LET child(b) == [b EXCEPT !.s.child = TRUE, !.s.finishing = FALSE,
                                    !.s.blocked = 0]
              forked(b) == IF b.s.atfork THEN _atfork_child(b) ELSE b
          IN  BridgeStep(forked(child(Bridge)), "fork", 0)

SpecSignal == Init /\ [][NextSignal]_vars

\* The bridge with what the kernel does beside it.  Another thread opens a
\* file, which takes the lowest free descriptor number (taken here only
\* while _on_finish is between its close() and its store, where the number
\* matters to the bridge).  A signal is delivered while the pipe is full;
\* the write of its handler completes when the pipe has room again and
\* fails with EPIPE when the read end is closed.  Both are taken in the
\* first run of the manager in the first process.
NextKernel ==
    \/ NextSignal
    \/ /\ ~fatal /\ sig.finishing
       /\ Len(cons) = 1 /\ ~sig.child
       /\ LowestFree(fdtab) >= 0
       /\ LET open(b) == [b EXCEPT !.w = [Call(@, "open", LowestFree(fdtab), "", 0)
                              EXCEPT !.fdtab[LowestFree(fdtab)] = OpenFd("file")]]
          IN  BridgeStep(open(Bridge), "open", 0)
    \/ \E signo \in sig.installed :
           /\ ~fatal /\ sig.blocked = 0
           /\ Len(cons) = 1 /\ ~sig.child
           /\ sig.signal_fd >= 0 /\ fdtab[sig.signal_fd].kind = "pipe"
           /\ fdtab[sig.rd].kind = "pipe"
           /\ Len(sig.pipe) >= MaxPipe * sizeof_signo
           /\ BridgeStep(_signal_handler(Bridge, signo, <<>>), "_signal_handler",
                         signo)
    \/ /\ ~fatal /\ sig.blocked # 0
       /\ fdtab[sig.rd].kind = "pipe"
       /\ Len(sig.pipe) < MaxPipe * sizeof_signo
       /\ LET woken(b) == [b EXCEPT !.s.pipe = @ \o <<sig.blocked, 0, 0, 0>>,
                                    !.s.blocked = 0]
          IN  BridgeStep(woken(Bridge), "write", sig.blocked)
    \/ /\ ~fatal /\ sig.blocked # 0
       /\ fdtab[sig.rd].kind # "pipe"
       /\ LET failed(b) == [b EXCEPT !.w = Call(@, "write", sig.signal_fd, "EPIPE",
                                                sig.blocked),
                                     !.s.blocked = 0]
          IN  BridgeStep(failed(Bridge), "write", sig.blocked)

SpecKernel == Init /\ [][NextKernel]_vars

\* ---------------------------------------------------------------- claims
\* what the calls of a step did, read off the log the step leaves
PollCtlOps == {"link", "relink", "unlink_fd"}

InputOps == {"unlink", "close", "shutdown"}

\* the step that is being taken ran close_con on connection c
close_con_ran(c) ==
    \/ last'.op = "close_all_connections"
    \/ /\ last'.con = c
       /\ \/ last'.op \in {"con_close_on_poll_error", "_deferred_close_fd"}
          \/ last'.op = "conmgr_queue_close_fd" /\ cons[c].work_active
          \/ /\ last'.op = "wrap_on_connection"
             /\ \E i \in DOMAIN calls' :
                    calls'[i].op = "on_connection" /\ calls'[i].kind = NULL

\* connection c as the step leaves it, but for the work_active flag, which
\* the worker clears when a callback returns
after_step(c) == [cons'[c] EXCEPT !.work_active = cons[c].work_active]

\* the worker that holds connection c
holder(c) == CHOOSE k \in Workers : workers[k].con = c

\* C1: at most one worker holds a connection at any time, and work_active
\* is true exactly while a worker holds the connection (a worker takes the
\* connection only when it is false, and it is cleared when the callback
\* returns).
C1_Serialized ==
    \A c \in Live :
        /\ Cardinality({k \in Workers : workers[k].con = c}) <= 1
        /\ cons[c].work_active <=> \E k \in Workers : workers[k].con = c

\* a worker holds a connection while more work waits on it
C1_Witness ==
    \E c \in Live, k \in Workers :
        workers[k].con = c /\ cons[c].work_active /\ cons[c].work # <<>>

\* C2: after close_con the connection has input_fd = -1, read_eof set and
\* can_read clear; a close_con of a connection whose input_fd is already -1
\* changes no field of it and issues no unlink, close, shutdown or
\* poll-controller call.
C2_CloseCon ==
    [][\A c \in DOMAIN cons : close_con_ran(c) =>
          /\ cons'[c].input_fd = -1
          /\ cons'[c].read_eof
          /\ ~cons'[c].can_read
          /\ cons[c].input_fd = -1 =>
                /\ after_step(c) = cons[c]
                /\ \A i \in DOMAIN calls' :
                       calls'[i].con = c =>
                           calls'[i].op \notin InputOps \cup PollCtlOps]_vars

\* a second close_con of a connection whose output is still polled
C2_Witness ==
    /\ last.op = "con_close_on_poll_error"
    /\ cons[last.con].input_fd = -1
    /\ \A i \in DOMAIN calls : calls[i].op \notin InputOps \cup PollCtlOps

\* C3: conmgr_queue_close_fd on a connection whose work_active is true
\* queues a close work item and leaves input_fd, read_eof and the polling
\* kinds alone; on a connection whose work_active is false it closes the
\* connection directly.
C3_DeferWhileActive ==
    [][\A c \in DOMAIN cons :
          last'.op = "conmgr_queue_close_fd" /\ last'.con = c =>
              IF cons[c].work_active
              THEN /\ cons'[c].work =
                         Append(cons[c].work,
                                [func |-> "_deferred_close_fd", fd |-> -1,
                                 spec |-> NoSpec])
                   /\ cons'[c].input_fd = cons[c].input_fd
                   /\ cons'[c].read_eof = cons[c].read_eof
                   /\ cons'[c].polling_input_fd = cons[c].polling_input_fd
                   /\ cons'[c].polling_output_fd = cons[c].polling_output_fd
              ELSE /\ cons'[c].input_fd = -1
                   /\ cons'[c].work = cons[c].work]_vars

\* C4: close_con leaves the out queue as it was, leaves output_fd unchanged
\* and leaves the descriptor behind output_fd open.
C4_OutputKept ==
    [][\A c \in DOMAIN cons : close_con_ran(c) =>
          /\ cons'[c].out = cons[c].out
          /\ cons'[c].output_fd = cons[c].output_fd
          /\ cons[c].output_fd >= 0 =>
                /\ fdtab'[cons[c].output_fd].open
                /\ fdtab'[cons[c].output_fd].kind = fdtab[cons[c].output_fd].kind]_vars

\* the input of a connection was closed or shut down while a buffer waits
\* in its out queue
C4_Witness ==
    /\ last.op = "con_close_on_poll_error"
    /\ \E i \in DOMAIN calls : calls[i].op \in {"close", "shutdown"}
    /\ cons[last.con].input_fd = -1
    /\ cons[last.con].out # <<>>
    /\ fdtab[cons[last.con].output_fd].open

\* C5: the listen list never holds two listeners whose addresses are equal
\* under the family-specific comparison.
C5_NoDuplicateListener ==
    \A i, j \in DOMAIN listen_conns :
        i # j => ~_match_socket_address(cons[listen_conns[i]],
                                        cons[listen_conns[j]].address)

\* what conmgr_queue_receive_fd refuses
receive_refused(con) == ~con.is_socket \/ con.read_eof \/ con.input_fd < 0

\* what conmgr_queue_send_fd refuses
send_refused(con, fd) == fd < 0 \/ ~con.is_socket \/ con.output_fd < 0

\* the step queued exactly one work item of callback func on c
queued(c, func) ==
    /\ Len(cons'[c].work) = Len(cons[c].work) + 1
    /\ SubSeq(cons'[c].work, 1, Len(cons[c].work)) = cons[c].work
    /\ cons'[c].work[Len(cons'[c].work)].func = func

\* C6 as amended: conmgr_queue_receive_fd refuses a source that is not a
\* socket, has read_eof set or has input_fd < 0; conmgr_queue_send_fd
\* refuses an fd < 0, a connection that is not a socket or one whose
\* output_fd < 0.  A refusal returns an error and queues nothing; each
\* returns success only when it queued a work item.
C6_QueueChecks ==
    [][\A c \in DOMAIN cons :
          /\ last'.op = "conmgr_queue_receive_fd" /\ last'.con = c =>
                IF receive_refused(cons[c])
                THEN last'.rc # SLURM_SUCCESS /\ cons'[c].work = cons[c].work
                ELSE last'.rc = SLURM_SUCCESS /\ queued(c, "_receive_fd")
          /\ last'.op = "conmgr_queue_send_fd" /\ last'.con = c =>
                IF send_refused(cons[c], last'.fd)
                THEN last'.rc # SLURM_SUCCESS /\ cons'[c].work = cons[c].work
                ELSE last'.rc = SLURM_SUCCESS /\ queued(c, "_send_fd")]_vars

\* conmgr_queue_send_fd accepted a connection whose input is closed
C6_Witness ==
    /\ last.op = "conmgr_queue_send_fd"
    /\ last.rc = SLURM_SUCCESS
    /\ cons[last.con].read_eof
    /\ cons[last.con].input_fd < 0
    /\ cons[last.con].work # <<>>

\* C6 as stated: both calls refuse, with an error and without queuing work,
\* a source that is not a socket, has read_eof set or has input_fd < 0.
C6_AsStated ==
    [][\A c \in DOMAIN cons :
          /\ last'.op \in {"conmgr_queue_receive_fd", "conmgr_queue_send_fd"}
          /\ last'.con = c
          /\ receive_refused(cons[c])
          => last'.rc # SLURM_SUCCESS /\ cons'[c].work = cons[c].work]_vars

\* C7: _send_fd closes the fd to send exactly once, whatever the status,
\* and leaves the source connection and its descriptors as they were.
C7_SendFdCloses ==
    [][last'.op = "_send_fd" =>
          /\ Cardinality({i \in DOMAIN calls' :
                 calls'[i].op = "close" /\ calls'[i].fd = last'.fd}) = 1
          /\ ~fdtab'[last'.fd].open
          /\ after_step(last'.con) = cons[last'.con]
          /\ \A i \in DOMAIN calls' :
                 calls'[i].op \in InputOps \cup PollCtlOps =>
                     calls'[i].fd = last'.fd /\ calls'[i].con = 0
          /\ \A f \in FDs \ {last'.fd} : fdtab'[f] = fdtab[f]]_vars

\* a cancelled _send_fd has closed the fd it was to send
C7_Witness ==
    /\ last.op = "_send_fd"
    /\ last.type = CONMGR_WORK_STATUS_CANCELLED
    /\ \E i \in DOMAIN calls : calls[i].op = "close" /\ calls[i].fd = last.fd
    /\ ~fdtab[last.fd].open

\* the step is _receive_fd run with status RUN on a source with open input
receive_ran(src) ==
    /\ last'.op = "_receive_fd"
    /\ last'.con = src
    /\ last'.type = CONMGR_WORK_STATUS_RUN
    /\ cons[src].input_fd >= 0
    /\ ~cons[src].read_eof

\* the step received a descriptor: one more is open afterwards
received_fd == \E f \in FDs : ~fdtab[f].open /\ fdtab'[f].open

\* the step appended exactly one connection, made of fd by the caller's spec
one_added(fd, spec) ==
    /\ Len(cons') = Len(cons) + 1
    /\ connections' = Append(connections, Len(cons'))
    /\ listen_conns' = listen_conns
    /\ ~cons'[Len(cons')].is_listen
    /\ cons'[Len(cons')].input_fd = fd
    /\ cons'[Len(cons')].output_fd = fd
    /\ cons'[Len(cons')].type = spec.type
    /\ cons'[Len(cons')].events = spec.events
    /\ cons'[Len(cons')].new_arg = spec.arg

none_added ==
    /\ Len(cons') = Len(cons)
    /\ connections' = connections
    /\ listen_conns' = listen_conns

\* C8 as amended: _receive_fd run with status RUN on a source whose input
\* is open.  When a descriptor is received and add_connection accepts it,
\* exactly one non-listen connection with input_fd = output_fd = that
\* descriptor and the caller's type, events and argument is appended and the
\* source is unchanged; when add_connection refuses it, no connection is
\* added and the source is unchanged; when receiving fails, the source is
\* closed and no connection is added.
C8_ReceiveFd ==
    [][\A src \in DOMAIN cons : receive_ran(src) =>
          IF received_fd
          THEN /\ after_step(src) = cons[src]
               /\ IF last'.rc = SLURM_SUCCESS
                  THEN one_added(LowestFree(fdtab), workers[holder(src)].work.spec)
                  ELSE none_added
          ELSE /\ cons'[src].input_fd = -1
               /\ cons'[src].read_eof
               /\ none_added]_vars

\* a descriptor was received and add_connection refused it
C8_Witness ==
    /\ last.op = "_receive_fd"
    /\ last.type = CONMGR_WORK_STATUS_RUN
    /\ last.rc = SLURM_ERROR
    /\ \E i \in DOMAIN calls : calls[i].op = "recvmsg"
    /\ cons[last.con].input_fd >= 0

\* C8 as stated: a received descriptor always becomes exactly one new
\* connection; a failed receive closes the source and adds none.
C8_AsStated ==
    [][\A src \in DOMAIN cons : receive_ran(src) =>
          IF received_fd
          THEN /\ after_step(src) = cons[src]
               /\ one_added(LowestFree(fdtab), workers[holder(src)].work.spec)
          ELSE /\ cons'[src].input_fd = -1
               /\ none_added]_vars

\* the normative table of section 4.9, input side
table_in(kind, same) ==
    IF same THEN kind
    ELSE CASE kind = PCTL_TYPE_NONE -> PCTL_TYPE_NONE
           [] kind = PCTL_TYPE_LISTEN -> PCTL_TYPE_LISTEN
           [] kind = PCTL_TYPE_CONNECTED -> PCTL_TYPE_CONNECTED
           [] kind = PCTL_TYPE_READ_ONLY -> PCTL_TYPE_READ_ONLY
           [] kind = PCTL_TYPE_WRITE_ONLY -> PCTL_TYPE_NONE
           [] kind = PCTL_TYPE_READ_WRITE -> PCTL_TYPE_READ_ONLY

\* the normative table of section 4.9, output side
table_out(kind, same) ==
    IF same THEN PCTL_TYPE_NONE
    ELSE CASE kind = PCTL_TYPE_NONE -> PCTL_TYPE_NONE
           [] kind = PCTL_TYPE_LISTEN -> PCTL_TYPE_NONE
           [] kind = PCTL_TYPE_CONNECTED -> PCTL_TYPE_CONNECTED
           [] kind = PCTL_TYPE_READ_ONLY -> PCTL_TYPE_NONE
           [] kind = PCTL_TYPE_WRITE_ONLY -> PCTL_TYPE_WRITE_ONLY
           [] kind = PCTL_TYPE_READ_WRITE -> PCTL_TYPE_WRITE_ONLY

\* a side of a connection that can be polled: it has an fd, and the fd is
\* not a regular file
pollable(fd) == fd >= 0 /\ fdtab[fd].kind # "file"

\* C9: con_set_polling(con, kind) leaves each pollable side with the kind
\* the table gives, recorded on the connection and registered with the
\* poll controller; with input_fd = output_fd only the input side is set
\* and the output side stays NONE.
C9_PollingTable ==
    [][\A c \in DOMAIN cons :
          last'.op = "con_set_polling" /\ last'.con = c =>
              LET con == cons[c]
                  same == con.input_fd = con.output_fd
              IN  /\ pollable(con.input_fd) =>
                        /\ cons'[c].polling_input_fd = table_in(last'.type, same)
                        /\ pctl'[con.input_fd] = table_in(last'.type, same)
                  /\ same => cons'[c].polling_output_fd = PCTL_TYPE_NONE
                  /\ ~same /\ pollable(con.output_fd) =>
                        /\ cons'[c].polling_output_fd = table_out(last'.type, same)
                        /\ pctl'[con.output_fd] = table_out(last'.type, same)]_vars

\* READ_WRITE was asked of a connection with two distinct fds
C9_Witness ==
    /\ last.op = "con_set_polling"
    /\ last.type = PCTL_TYPE_READ_WRITE
    /\ cons[last.con].input_fd # cons[last.con].output_fd
    /\ cons[last.con].polling_input_fd = PCTL_TYPE_READ_ONLY
    /\ cons[last.con].polling_output_fd = PCTL_TYPE_WRITE_ONLY

occurs(list, c) == Cardinality({i \in DOMAIN list : list[i] = c})

\* C11: every connection that has not entered the complete state has at
\* least one of input_fd, output_fd >= 0.
C11_SomeFd ==
    \A c \in Live : cons[c].input_fd >= 0 \/ cons[c].output_fd >= 0

\* C12: read_eof implies can_read = false and a polling kind of the input
\* side that carries no read interest (neither READ_ONLY nor READ_WRITE).
C12_EofNoRead ==
    \A c \in DOMAIN cons :
        cons[c].read_eof =>
            /\ ~cons[c].can_read
            /\ cons[c].polling_input_fd
                   \notin {PCTL_TYPE_READ_ONLY, PCTL_TYPE_READ_WRITE}

\* close_con has just taken the polled input fd of a connected connection
\* out of the poll controller
C12_Witness ==
    /\ last.op \in {"close_all_connections", "_deferred_close_fd"}
    /\ \E c \in Live :
           /\ cons[c].read_eof
           /\ cons[c].is_connected
           /\ cons[c].output_fd >= 0
           /\ \E i \in DOMAIN calls :
                  calls[i].op = "unlink_fd" /\ calls[i].con = c

\* C13: every connection with is_listen set has output_fd = -1 and a
\* polling kind of its input side that is LISTEN or NONE.
C13_Listener ==
    \A c \in DOMAIN cons :
        cons[c].is_listen =>
            /\ cons[c].output_fd = -1
            /\ cons[c].polling_input_fd \in {PCTL_TYPE_LISTEN, PCTL_TYPE_NONE}

\* one listener is polled for LISTEN while another has been closed
C13_Witness ==
    \E c, d \in Live :
        /\ cons[c].is_listen
        /\ cons[c].polling_input_fd = PCTL_TYPE_LISTEN
        /\ pctl[cons[c].input_fd] = PCTL_TYPE_LISTEN
        /\ cons[d].is_listen
        /\ cons[d].input_fd = -1

\* C14: each connection is in exactly one of the active, listen and
\* complete lists, once; a listener is never in the active list and any
\* other connection never in the listen list.
C14_OneList ==
    \A c \in DOMAIN cons :
        /\ occurs(connections, c) + occurs(listen_conns, c)
              + occurs(complete_conns, c) = 1
        /\ occurs(connections, c) = 1 => ~cons[c].is_listen
        /\ occurs(listen_conns, c) = 1 => cons[c].is_listen

\* a listener has just been added: the listen list holds it, the active
\* list does not
C14_Witness ==
    /\ last.op = "conmgr_create_listen_socket"
    /\ last.rc = SLURM_SUCCESS
    /\ Len(listen_conns) = 1
    /\ cons[listen_conns[1]].is_listen
    /\ connections = <<>>

\* how many times the step signalled watch_sleep
signals == Cardinality({i \in DOMAIN calls' : calls'[i].op = "EVENT_SIGNAL"})

\* the step is a mutator, run outside the watch thread, that changed state
\* the watch loop looks at: a connection was added, an open connection was
\* closed, the type changed, or on_connection stored its result
visible_change ==
    \/ /\ last'.op \in {"conmgr_process_fd", "conmgr_create_connect_socket"}
       /\ Len(cons') > Len(cons)
    \/ /\ last'.op \notin WatchOps
       /\ \E c \in DOMAIN cons : close_con_ran(c) /\ cons[c].input_fd >= 0
    \/ /\ last'.op = "conmgr_fd_change_mode"
       /\ cons'[last'.con].type # cons[last'.con].type
    \/ /\ last'.op = "wrap_on_connection"
       /\ cons'[last'.con].arg # NULL

\* C15: every mutator that changes state visible to the watch loop signals
\* watch_sleep, and a watch loop that is blocked in poll at that moment is
\* woken by it.
C15_Wakes ==
    [][visible_change => signals >= 1 /\ (watch = "poll" => watch' = "run")]_vars

\* what the on_connection callback returned in the step
on_connection_ret ==
    LET i == CHOOSE j \in DOMAIN calls' : calls'[j].op = "on_connection"
    IN  calls'[i].kind

\* C16: when on_connection returns NULL, wrap_on_connection leaves the
\* connection closed (input_fd = -1, read_eof set) and con.arg unset; when
\* it returns a value, con.arg holds that value, watch_sleep is signalled
\* (once by wrap_on_connection, once by the worker) and nothing else of the
\* connection changes.
C16_OnConnection ==
    [][\A c \in DOMAIN cons :
          last'.op = "wrap_on_connection" /\ last'.con = c =>
              IF on_connection_ret = NULL
              THEN /\ cons'[c].input_fd = -1
                   /\ cons'[c].read_eof
                   /\ cons[c].arg = NULL
                   /\ cons'[c].arg = NULL
              ELSE /\ cons'[c].arg = on_connection_ret
                   /\ signals >= 2
                   /\ after_step(c) = [cons[c] EXCEPT !.arg = on_connection_ret]
                   /\ \A i \in DOMAIN calls' :
                          calls'[i].op \notin InputOps \cup PollCtlOps]_vars

\* on_connection returned NULL for a connection with an open socket, which
\* wrap_on_connection then shut down for reading
C16_Witness ==
    /\ last.op = "wrap_on_connection"
    /\ \E i \in DOMAIN calls :
           calls[i].op = "on_connection" /\ calls[i].kind = NULL
    /\ \E i \in DOMAIN calls : calls[i].op \in {"close", "shutdown"}
    /\ cons[last.con].input_fd = -1
    /\ cons[last.con].arg = NULL

\* C17: conmgr_fd_change_mode changes the type of the connection and
\* nothing else: in_buffer cursor, out queue, fds, flags and polling kinds,
\* the descriptor table and the poll controller are as before; with the
\* current type nothing changes at all.
C17_ChangeMode ==
    [][\A c \in DOMAIN cons :
          last'.op = "conmgr_fd_change_mode" /\ last'.con = c =>
              /\ last'.rc = SLURM_SUCCESS
              /\ cons'[c] = [cons[c] EXCEPT !.type = last'.type]
              /\ last'.type = cons[c].type => cons' = cons
              /\ fdtab' = fdtab
              /\ pctl' = pctl
              /\ <<connections', listen_conns', complete_conns'>>
                    = <<connections, listen_conns, complete_conns>>]_vars

\* a connection was switched to RPC with unread input and a queued buffer
C17_Witness ==
    /\ last.op = "conmgr_fd_change_mode"
    /\ last.type = CON_TYPE_RPC
    /\ cons[last.con].type = CON_TYPE_RPC
    /\ cons[last.con].in_off > 0
    /\ cons[last.con].out # <<>>

\* the connect() calls in a call log, in order
connect_calls(log) == SelectSeq(log, LAMBDA e : e.op = "connect")

\* the result of the last connect() call in a call log
final_connect(log) == connect_calls(log)[Len(connect_calls(log))].kind

\* the step is a conmgr_create_connect_socket that reached connect()
dialled ==
    /\ last'.op = "conmgr_create_connect_socket"
    /\ connect_calls(calls') # <<>>

\* C18: conmgr_create_connect_socket returns EAFNOSUPPORT for a family
\* other than AF_INET, AF_INET6 and AF_UNIX, and the errno of a connect()
\* failure that is not EINTR, EINPROGRESS, EAGAIN or EWOULDBLOCK; either way
\* no connection is added and the descriptor table is as before the call.
C18_DialErrors ==
    [][last'.op = "conmgr_create_connect_socket" =>
          /\ last'.type \notin {"AF_INET", "AF_INET6", "AF_UNIX"} =>
                /\ last'.rc = EAFNOSUPPORT
                /\ none_added
                /\ calls' = <<>>
                /\ fdtab' = fdtab
          /\ dialled /\ final_connect(calls') = "ECONNREFUSED" =>
                /\ last'.rc = ECONNREFUSED
                /\ none_added
                /\ fdtab' = fdtab]_vars

\* a connect() that was interrupted and then refused: the socket is closed
C18_Witness ==
    /\ last.op = "conmgr_create_connect_socket"
    /\ last.rc = ECONNREFUSED
    /\ Len(connect_calls(calls)) = 2
    /\ \E i \in DOMAIN calls : calls[i].op = "close" /\ calls[i].fd = last.fd
    /\ ~fdtab[last.fd].open

\* every connect() of the step but the last was interrupted, and an
\* interrupted connect() is the last one exactly when shutdown is requested
eintr_retried ==
    \A i \in DOMAIN connect_calls(calls') :
        /\ i < Len(connect_calls(calls')) => connect_calls(calls')[i].kind = "EINTR"
        /\ connect_calls(calls')[i].kind = "EINTR" =>
              (i = Len(connect_calls(calls')) <=> shutdown_requested)

\* an interrupted connect() during shutdown: socket closed, nothing
\* registered, success returned
eintr_shutdown ==
    final_connect(calls') = "EINTR" =>
        /\ last'.rc = SLURM_SUCCESS
        /\ none_added
        /\ fdtab' = fdtab

owners(f) ==
    {c \in DOMAIN cons' :
        /\ occurs(connections', c) + occurs(listen_conns', c) > 0
        /\ f \in {cons'[c].input_fd, cons'[c].output_fd}}

\* C20: when an operation that creates or receives a descriptor returns,
\* each descriptor it opened is owned by exactly one registered connection
\* or is closed again, and no descriptor was closed twice.
C20_OneOwner ==
    [][last'.op \in {"conmgr_create_connect_socket",
                     "conmgr_create_listen_socket", "_receive_fd"} =>
          \A f \in FDs :
              /\ ~fdtab[f].open /\ fdtab'[f].open => Cardinality(owners(f)) = 1
              /\ Cardinality({i \in DOMAIN calls' :
                     calls'[i].op = "close" /\ calls'[i].fd = f}) <= 1]_vars

\* the connection the step that is being taken has added
added == {c \in DOMAIN cons' : c \notin DOMAIN cons}

\* C25: a connection added with input_fd = -1 and output_fd = -1 is named
\* "INVALID", and it is ready for finalization from the moment it is added:
\* read_eof is set, nothing is queued on it and neither side is polled, so
\* the watch loop finalizes it and it does not wait for I/O.
C25_Invalid ==
    [][\A c \in added :
          cons'[c].input_fd = -1 /\ cons'[c].output_fd = -1 =>
              /\ cons'[c].name = "INVALID"
              /\ may_finalize(cons'[c])
              /\ cons'[c].polling_input_fd = PCTL_TYPE_NONE
              /\ cons'[c].polling_output_fd = PCTL_TYPE_NONE
              /\ pctl' = pctl]_vars

\* a connection added without descriptors has been finalized
C25_Witness ==
    \E i \in DOMAIN complete_conns :
        /\ cons[complete_conns[i]].name = "INVALID"
        /\ last.op = "finalize"
        /\ last.con = complete_conns[i]
        /\ calls = <<[op |-> "on_finish", fd |-> -1, kind |-> "", con |-> last.con]>>

\* the polling kinds of pollctl_fd_type_t
PollKinds ==
    {PCTL_TYPE_NONE, PCTL_TYPE_UNSUPPORTED, PCTL_TYPE_CONNECTED,
     PCTL_TYPE_READ_ONLY, PCTL_TYPE_READ_WRITE, PCTL_TYPE_WRITE_ONLY,
     PCTL_TYPE_LISTEN}

\* the poll-controller operations a run of _set_fd_polling issued
pollctl_ops(r) == {r.calls[i].op : i \in DOMAIN r.calls}

\* C30: for every descriptor and every pair (old, new), old = new = NONE
\* included, _set_fd_polling either dies or returns a kind: UNSUPPORTED when
\* old is UNSUPPORTED or the link is refused with EPERM, new otherwise.  It
\* links only from NONE to another kind, relinks only between two distinct
\* kinds other than NONE, unlinks only from another kind to NONE, issues at
\* most one operation and none when old = new; it dies exactly when a link
\* fails with an error other than EPERM.
C30_SetFdPolling ==
    \A f \in FDs, old \in PollKinds, new \in PollKinds :
        LET r == _set_fd_polling(World, f, old, new, 0)
            refused == "link" \in pollctl_ops(r) /\ r.rc = EPERM
        IN  /\ ~r.fatal =>
                  r.ret = IF old = PCTL_TYPE_UNSUPPORTED \/ refused
                          THEN PCTL_TYPE_UNSUPPORTED ELSE new
            /\ "link" \in pollctl_ops(r) =>
                  old = PCTL_TYPE_NONE /\ new # PCTL_TYPE_NONE
            /\ "relink" \in pollctl_ops(r) =>
                  old # PCTL_TYPE_NONE /\ new # PCTL_TYPE_NONE /\ old # new
            /\ "unlink_fd" \in pollctl_ops(r) =>
                  old # PCTL_TYPE_NONE /\ new = PCTL_TYPE_NONE
            /\ old = new => r.calls = <<>>
            /\ Len(r.calls) <= 1
            /\ r.fatal <=> /\ "link" \in pollctl_ops(r)
                           /\ r.rc \notin {SLURM_SUCCESS, EPERM}

\* con_set_polling was refused the link of a regular file and issued no
\* other operation: the side is now UNSUPPORTED
C30_Witness ==
    /\ last.op = "con_set_polling"
    /\ Len(calls) = 1
    /\ calls[1].op = "link"
    /\ fdtab[calls[1].fd].kind = "file"
    /\ pctl[calls[1].fd] = PCTL_TYPE_NONE
    /\ \/ /\ calls[1].fd = cons[last.con].input_fd
          /\ cons[last.con].polling_input_fd = PCTL_TYPE_UNSUPPORTED
       \/ /\ calls[1].fd = cons[last.con].output_fd
          /\ cons[last.con].polling_output_fd = PCTL_TYPE_UNSUPPORTED

\* what the poll controller holds for a side whose recorded kind is k
registered(k) ==
    IF k \in {PCTL_TYPE_NONE, PCTL_TYPE_UNSUPPORTED} THEN PCTL_TYPE_NONE ELSE k

\* the step that is being taken ran close_con on connection c and found its
\* input side open
close_con_closed(c) == close_con_ran(c) /\ cons[c].input_fd >= 0

\* the poll controller and the kinds recorded on the connections agree
in_lock_step ==
    /\ \A c \in Live :
           /\ cons[c].input_fd >= 0 =>
                  pctl[cons[c].input_fd] = registered(cons[c].polling_input_fd)
           /\ cons[c].output_fd >= 0 /\ cons[c].output_fd # cons[c].input_fd =>
                  pctl[cons[c].output_fd] = registered(cons[c].polling_output_fd)
           /\ cons[c].input_fd < 0 =>
                  cons[c].polling_input_fd \in {PCTL_TYPE_NONE, PCTL_TYPE_UNSUPPORTED}
           /\ cons[c].output_fd < 0 \/ cons[c].output_fd = cons[c].input_fd =>
                  cons[c].polling_output_fd = PCTL_TYPE_NONE
    /\ \A f \in FDs :
           pctl[f] # PCTL_TYPE_NONE =>
               \E c \in Live : f \in {cons[c].input_fd, cons[c].output_fd}

\* C29 as stated: the poll controller and the recorded kinds agree in every
\* state, and every close_con leaves both recorded kinds NONE or UNSUPPORTED.
C29_AsStated ==
    [][\A c \in DOMAIN cons : close_con_ran(c) =>
          /\ cons'[c].polling_input_fd \in {PCTL_TYPE_NONE, PCTL_TYPE_UNSUPPORTED}
          /\ cons'[c].polling_output_fd \in {PCTL_TYPE_NONE, PCTL_TYPE_UNSUPPORTED}]_vars

\* C29: in every state a descriptor is registered with the poll controller
\* if and only if the kind recorded for it on its connection is neither NONE
\* nor UNSUPPORTED, and the registered interest is the recorded kind; a
\* close_con that finds the input side open leaves both recorded kinds NONE
\* or UNSUPPORTED, and one that finds it closed leaves them as they were.
C29_LockStep ==
    /\ []in_lock_step
    /\ [][\A c \in DOMAIN cons :
             /\ close_con_closed(c) =>
                   /\ cons'[c].polling_input_fd
                          \in {PCTL_TYPE_NONE, PCTL_TYPE_UNSUPPORTED}
                   /\ cons'[c].polling_output_fd
                          \in {PCTL_TYPE_NONE, PCTL_TYPE_UNSUPPORTED}
             /\ close_con_ran(c) /\ ~close_con_closed(c) =>
                   /\ cons'[c].polling_input_fd = cons[c].polling_input_fd
                   /\ cons'[c].polling_output_fd = cons[c].polling_output_fd]_vars

\* close_con has unlinked both sides of a connection with two descriptors
C29_Witness ==
    /\ last.op = "con_close_on_poll_error"
    /\ cons[last.con].output_fd >= 0
    /\ \E i \in DOMAIN calls :
           calls[i].op = "unlink_fd" /\ calls[i].fd = cons[last.con].output_fd
    /\ \E i \in DOMAIN calls :
           calls[i].op = "unlink_fd" /\ calls[i].fd # cons[last.con].output_fd
    /\ pctl = [f \in FDs |-> PCTL_TYPE_NONE]

\* the largest element of a non-empty set of numbers
Max(S) == CHOOSE m \in S : \A x \in S : x <= m

\* the records of the list of the last call, none for a NULL list
records == IF job.job_gres_list.null THEN <<>> ELSE job.job_gres_list.items

\* the products gres_per_task * cpu_per_gpu that count for the last call of
\* gres_select_util_job_set_defs
task_products ==
    {records[i].gres_data.gres_per_task * job.cpu_per_gpu :
        i \in {k \in DOMAIN records :
                  /\ records[k].plugin_id = gres_build_id("gpu")
                  /\ ~records[k].gres_data.null
                  /\ records[k].gres_data.gres_per_task # 0
                  /\ job.cpu_per_gpu # 0}}

\* C26: gres_select_util_job_set_defs never decreases *cpus_per_task, and
\* whenever the maximum of the old value and the products gres_per_task *
\* cpu_per_gpu of the gpu records fits into 16 bits, *cpus_per_task is that
\* maximum after the call.
C26_NeverDecreases ==
    job.fn = "gres_select_util_job_set_defs" =>
        /\ job.out.cpus_per_task >= job.cpus_per_task
        /\ Max({job.cpus_per_task} \cup task_products) < W16 =>
               job.out.cpus_per_task = Max({job.cpus_per_task} \cup task_products)

\* total_gres of a record: gres_per_job, else gres_per_node * node_count,
\* else gres_per_socket * node_count * sockets_per_node, else gres_per_task
\* * task_count
total_gres(d, task_count) ==
    IF d.gres_per_job # 0 THEN d.gres_per_job
    ELSE IF d.gres_per_node # 0 THEN d.gres_per_node * job.node_count
    ELSE IF d.gres_per_socket # 0
    THEN d.gres_per_socket * job.node_count * job.sockets_per_node
    ELSE d.gres_per_task * task_count

\* the record asks for GRES in one of the four ways
asks(d) ==
    \/ d.gres_per_job # 0
    \/ d.gres_per_node # 0
    \/ d.gres_per_socket # 0
    \/ d.gres_per_task # 0

\* the exact product a * b is larger than r, or is r (r is not negative)
exceeds(a, b, r) ==
    \/ umul(a, b).hi > r \div W16
    \/ umul(a, b).hi = r \div W16 /\ umul(a, b).lo > r % W16

is_product(a, b, r) == umul(a, b) = [hi |-> r \div W16, lo |-> r % W16]

\* cpus_per_gres of a record, def_cpus_per_gres when it is zero
cpus_of(d) == IF d.cpus_per_gres # 0 THEN d.cpus_per_gres ELSE d.def_cpus_per_gres

\* C27: gres_select_util_job_min_cpus returns 0 for a NULL or empty list,
\* and otherwise the maximum over the records of cpus_per_gres * total_gres:
\* the result is not negative, no record's product is larger than it, and
\* it is the product of one record unless no record counts.
C27_MinCpus ==
    job.fn = "gres_select_util_job_min_cpus" =>
        LET counted == {i \in DOMAIN records :
                           /\ cpus_of(records[i].gres_data) # 0
                           /\ asks(records[i].gres_data)}
            a(i) == cpus_of(records[i].gres_data)
            b(i) == total_gres(records[i].gres_data, job.task_count)
        IN  /\ job.ret >= 0
            /\ \A i \in counted : ~exceeds(a(i), b(i), job.ret)
            /\ IF counted = {} THEN job.ret = 0
               ELSE \E i \in counted : is_product(a(i), b(i), job.ret)

\* C28: gres_select_util_job_min_tasks returns 0 when ntasks_per_tres is 0
\* or NO_VAL16 or the list is NULL or empty, and otherwise the maximum of
\* ntasks_per_tres * total_gres over the records the name filter lets
\* through (all of them for a NULL or empty name), where a record that only
\* sets gres_per_task counts with 0.
C28_MinTasks ==
    job.fn = "gres_select_util_job_min_tasks" =>
        LET counted == {i \in DOMAIN records :
                           /\ \/ job.gres_name \in {NULL, ""}
                              \/ records[i].plugin_id = gres_build_id(job.gres_name)
                           /\ asks(records[i].gres_data)}
            b(i) == total_gres(records[i].gres_data, 0)
        IN  IF job.ntasks_per_tres \in {0, NO_VAL16} \/ counted = {}
            THEN job.ret = 0
            ELSE /\ \A i \in counted : ~exceeds(job.ntasks_per_tres, b(i), job.ret)
                 /\ \E i \in counted : is_product(job.ntasks_per_tres, b(i), job.ret)

\* the steps of the signal bridge
bridge_step(op) == last'.op = op /\ ~fatal

\* the bytes _on_data finds in the input buffer: what was left there and
\* what conmgr read from the pipe in this step
buffered == sig.in \o SubSeq(sig.pipe, 1, Len(sig.pipe) - Len(sig'.pipe))

\* the work one signal number must queue, in the order of registration, or
\* the warning
dispatch_of(signo) ==
    LET work == sig.signal_work
        found[i \in 0..Len(work)] ==
            IF i = 0 THEN <<>>
            ELSE IF work[i].on_signal_number = signo
            THEN Append(found[i - 1], <<"add_work", signo, work[i].callback>>)
            ELSE found[i - 1]
    IN  IF found[Len(work)] = <<>> THEN <<<<"warning", signo, "">>>>
        ELSE found[Len(work)]

dispatched(log) ==
    LET picked == SelectSeq(log, LAMBDA r : r.op \in {"add_work", "warning"})
    IN  [i \in DOMAIN picked |-> <<picked[i].op, picked[i].fd, picked[i].kind>>]

\* C21: an _on_data step queues, for each complete signal number of the
\* input buffer in order, exactly one unattached work item per registered
\* signal work with that on_signal_number and nothing else, logs only a
\* warning for a number no registration matches, and leaves the bytes of an
\* incomplete number in the buffer.
C21_Dispatch ==
    [][bridge_step("_on_data") =>
          LET count == Len(buffered) \div sizeof_signo
              expected[k \in 0..count] ==
                  IF k = 0 THEN <<>>
                  ELSE expected[k - 1]
                       \o dispatch_of(int_at(buffered, (k - 1) * sizeof_signo))
          IN  /\ dispatched(calls') = expected[count]
              /\ sig'.in = SubSeq(buffered, count * sizeof_signo + 1, Len(buffered))
              /\ sig'.signal_work = sig.signal_work]_vars

\* one read brought two numbers: two registrations match the first, none
\* the second
C21_Witness ==
    /\ last.op = "_on_data"
    /\ \E i, j, k \in DOMAIN calls :
           /\ i < j /\ j < k
           /\ calls[i].op = "add_work" /\ calls[j].op = "add_work"
           /\ calls[i].fd = calls[j].fd /\ calls[i].kind # calls[j].kind
           /\ calls[k].op = "warning" /\ calls[k].fd # calls[i].fd

\* the results of the write() calls of a step, in order
writes(log) ==
    LET picked == SelectSeq(log, LAMBDA r : r.op = "write")
    IN  [i \in DOMAIN picked |-> picked[i].kind]

\* C22: _signal_handler never aborts the process; it does not write when
\* signal_fd < 0; a write that fails with EINTR, EAGAIN or EWOULDBLOCK is
\* followed by another write, and a write that fails with EPIPE or EBADF is
\* the last one and leaves the pipe and the bridge as they were.
C22_SignalHandler ==
    [][bridge_step("_signal_handler") =>
          LET results == writes(calls')
              n == Len(results)
          IN  /\ ~fatal'
              /\ Len(calls') = n
              /\ sig.signal_fd < 0 <=> n = 0
              /\ \A i \in 1..n :
                     IF i < n THEN results[i] \in {"EINTR", "EAGAIN", "EWOULDBLOCK"}
                     ELSE results[i] \in {"0", "EPIPE", "EBADF"}
              /\ n > 0 /\ results[n] \in {"EPIPE", "EBADF"} => sig' = sig
              /\ n > 0 /\ results[n] = "0" /\ fdtab[sig.signal_fd].kind = "pipe" =>
                     sig' = [sig EXCEPT !.pipe = @ \o <<last'.fd, 0, 0, 0>>]]_vars

\* during shutdown, with the read end of the pipe closed: an interrupted
\* write was retried and the retry failed with EPIPE
C22_Witness ==
    /\ last.op = "_signal_handler"
    /\ writes(calls) = <<"EINTR", "EPIPE">>
    /\ sig.signal_con # 0
    /\ ~fatal

\* the statics of signal.c are as they are initialized
uninitialized(s) ==
    /\ s.lock = "unlocked" /\ ~s.one_time_init
    /\ s.signal_handlers = <<>> /\ s.signal_work = <<>>
    /\ s.signal_fd = -1 /\ s.signal_con = 0

\* C23: after fork() the statics of the signal bridge are uninitialized in
\* the child, and a signal the child gets through the handler it inherited,
\* before it starts a bridge of its own, is handled without a write.
C23_AfterFork ==
    [][/\ bridge_step("fork") => uninitialized(sig')
       /\ bridge_step("_signal_handler") /\ sig.child /\ ~sig.one_time_init
              => writes(calls') = <<>>]_vars

\* whether the lock named by its acquire and release calls is held before
\* the k-th call of a step
held(log, k, acquire, release) ==
    Cardinality({i \in 1..(k - 1) : log[i].op \in acquire})
    > Cardinality({i \in 1..(k - 1) : log[i].op \in release})

rwlock_held(log, k) ==
    held(log, k, {"rwlock_rdlock", "rwlock_wrlock"}, {"rwlock_unlock"})

mutex_held(log, k) == held(log, k, {"mutex_lock"}, {"mutex_unlock"})

\* C24 as stated: a thread that holds the signal lock and mgr.mutex took
\* the signal lock first, that is, no step takes the signal lock while it
\* holds mgr.mutex.
C24_AsStated ==
    [][~fatal => \A k \in DOMAIN calls' :
                     calls'[k].op \in {"rwlock_rdlock", "rwlock_wrlock"}
                     => ~mutex_held(calls', k)]_vars

\* C24: a thread that holds the signal lock and mgr.mutex took mgr.mutex
\* first: no step of the signal bridge takes mgr.mutex while it holds the
\* signal lock, and _on_data and signal_mgr_stop take the signal lock with
\* mgr.mutex held.
C24_MutexFirst ==
    [][~fatal =>
          /\ \A k \in DOMAIN calls' :
                 calls'[k].op = "mutex_lock" => ~rwlock_held(calls', k)
          /\ last'.op = "signal_mgr_stop"
             \/ (last'.op = "_on_data" /\ Len(buffered) >= sizeof_signo)
                 => \E k \in DOMAIN calls' :
                        /\ calls'[k].op = "rwlock_rdlock"
                        /\ mutex_held(calls', k)]_vars

\* a signal is dispatched with both locks held
C24_Witness ==
    /\ last.op = "_on_data"
    /\ \E k \in DOMAIN calls :
           /\ calls[k].op = "add_work"
           /\ rwlock_held(calls, k) /\ mutex_held(calls, k)

\* C31: every write of _signal_handler that succeeds goes to the open write
\* end of the current self-pipe: the number in signal_fd is an open pipe
\* descriptor that _on_finish has not closed.
C31_OwnPipe ==
    [][/\ bridge_step("_signal_handler")
       /\ \E k \in DOMAIN calls' : calls'[k].op = "write" /\ calls'[k].kind = "0"
       =>
          /\ fdtab[sig.signal_fd].open
          /\ fdtab[sig.signal_fd].kind = "pipe"
          /\ ~sig.finishing]_vars

\* C32: while the signal connection is established, every signal number of
\* the registered signal work has exactly one entry in the handler table.
C32_Registered ==
    sig.signal_con # 0 =>
        \A i \in DOMAIN sig.signal_work :
            Cardinality({j \in DOMAIN sig.signal_handlers :
                            sig.signal_handlers[j]
                            = sig.signal_work[i].on_signal_number}) = 1

\* C33: no invocation of _signal_handler waits for the manager: its writes
\* are done and it has returned when its step ends, also when the self-pipe
\* is full.
C33_Returns == sig.blocked = 0

\* the signal numbers of the _on_signal calls of a step, in order: each call
\* takes the read lock and queues work under it, or warns after it
handled(log) ==
    LET at == SelectSeq([k \in 1..Len(log) |-> k],
                        LAMBDA k : log[k].op = "rwlock_rdlock")
    IN  [i \in DOMAIN at |-> IF log[at[i] + 1].op = "add_work"
                              THEN log[at[i] + 1].fd
                              ELSE log[at[i] + 2].fd]

bytes_of(numbers) ==
    LET cat[i \in 0..Len(numbers)] ==
            IF i = 0 THEN <<>> ELSE cat[i - 1] \o <<numbers[i], 0, 0, 0>>
    IN  cat[Len(numbers)]

\* C34: an _on_data step takes the buffered bytes sizeof(int) at a time: it
\* calls _on_signal once per complete number, in the order of the bytes,
\* consumes the largest multiple of sizeof(int) that fits, and keeps the
\* rest in the buffer, so that the bytes of the pipe and the buffer before
\* the step are the numbers handled followed by the bytes still there.
C34_Drain ==
    [][bridge_step("_on_data") =>
          /\ Len(handled(calls')) = Len(buffered) \div sizeof_signo
          /\ Len(sig'.in) = Len(buffered) % sizeof_signo
          /\ buffered = bytes_of(handled(calls')) \o sig'.in
          /\ sig.in \o sig.pipe
                 = bytes_of(handled(calls')) \o sig'.in \o sig'.pipe]_vars

\* a number was handled and the first bytes of the next one stay buffered
C34_Witness ==
    /\ last.op = "_on_data"
    /\ Len(handled(calls)) > 0
    /\ Len(sig.in) \in 1..(sizeof_signo - 1)
    /\ Len(sig.pipe) > 0

\* the step received a descriptor that add_connection then refused
refused_fd ==
    /\ last'.op = "_receive_fd"
    /\ last'.type = CONMGR_WORK_STATUS_RUN
    /\ \E i \in DOMAIN calls' : calls'[i].op = "recvmsg"
    /\ received_fd
    /\ last'.rc = SLURM_ERROR

\* the step interrupted the poller and signalled watch_sleep, in this order,
\* within one hold of mgr.mutex
woken_in_one_hold(log) ==
    \E k \in DOMAIN log :
        /\ k + 3 <= Len(log)
        /\ log[k].op = "mutex_lock"
        /\ log[k + 1].op = "interrupt"
        /\ log[k + 2].op = "EVENT_SIGNAL"
        /\ log[k + 3].op = "mutex_unlock"

\* C35: add_connection looks at the fds before it changes anything.  When
\* fstat fails on a descriptor it was given, no connection object is made,
\* the lists and the descriptor's flags are as before, the poller is not
\* interrupted and watch_sleep is signalled only once, by the worker that
\* ran the callback; when a connection is added, it is in one of the lists
\* and the poller was interrupted and watch_sleep signalled within one hold
\* of mgr.mutex.
C35_Validated ==
    [][/\ ~fatal /\ refused_fd =>
              /\ none_added
              /\ \A c \in DOMAIN cons : after_step(c) = cons[c]
              /\ \A f \in FDs : ~fdtab[f].open /\ fdtab'[f].open =>
                     ~fdtab'[f].nonblock /\ ~fdtab'[f].keepalive
              /\ \A i \in DOMAIN calls' : calls'[i].op # "interrupt"
              /\ signals = 1
       /\ ~fatal /\ added # {} =>
              /\ \A c \in added : occurs(connections', c) + occurs(listen_conns', c) = 1
              /\ woken_in_one_hold(calls')]_vars

\* a worker received a descriptor, fstat failed on it, and nothing was added
C35_Witness ==
    /\ last.op = "_receive_fd"
    /\ last.rc = SLURM_ERROR
    /\ calls[1].op = "recvmsg"
    /\ \A i \in DOMAIN calls : calls[i].op # "interrupt"
    /\ \E f \in FDs : fdtab[f].open /\ ~fdtab[f].nonblock
                      /\ \A c \in DOMAIN cons : cons[c].input_fd # f

\* the step ran op as work with status CANCELLED
cancelled(op) ==
    /\ ~fatal
    /\ last'.op = op
    /\ last'.type = CONMGR_WORK_STATUS_CANCELLED

C37_ClosesEventually ==
    /\ \A c \in ConIds :
           (last.op = "conmgr_queue_close_fd" /\ last.con = c)
               ~> (c \in DOMAIN cons /\ cons[c].input_fd = -1)
    /\ [][last'.op = "_deferred_close_fd" =>
              /\ cons'[last'.con].input_fd = -1
              /\ cons'[last'.con].work = cons[last'.con].work]_vars

\* the queued close ran in a worker and closed a connection that was open
C37_Witness ==
    /\ last.op = "_deferred_close_fd"
    /\ cons[last.con].input_fd = -1
    /\ \E i \in DOMAIN calls : calls[i].op = "close"

\* descriptor f is not registered with the poll controller when the k-th
\* call of the step is made: the last poll-controller call on f before it
\* is an unlink, or there is none and f was not registered before the step
unregistered_at(log, k, f) ==
    LET on_f == {j \in 1..(k - 1) : log[j].op \in PollCtlOps /\ log[j].fd = f}
    IN  IF on_f = {} THEN pctl[f] = PCTL_TYPE_NONE
        ELSE log[Max(on_f)].op = "unlink_fd"

\* C38: whenever a step calls close() or shutdown() on a descriptor, the
\* descriptor is not registered with the poll controller at that call; where
\* it was registered, the unlink comes earlier in the same step.
C38_UnlinkBeforeClose ==
    [][~fatal => \A k \in DOMAIN calls' :
                     calls'[k].op \in {"close", "shutdown"} /\ calls'[k].fd >= 0
                     => unregistered_at(calls', k, calls'[k].fd)]_vars

\* close_con unlinked the shared descriptor of a socket and then shut its
\* input down
C38_Witness ==
    \E j, k \in DOMAIN calls :
        /\ j < k
        /\ calls[j].op = "unlink_fd"
        /\ calls[k].op = "shutdown"
        /\ calls[j].fd = calls[k].fd

\* the listeners of the listen list that are open on address addr
open_listeners(list, all, addr) ==
    {i \in DOMAIN list :
        /\ all[list[i]].input_fd >= 0
        /\ _match_socket_address(all[list[i]], addr)}

============================================================================
